---- MODULE Spec2Model ----
\* Health-monitoring engine of fluxa: the supervisor (MonitoringService), the
\* per-target monitor (ServiceMonitor) with its bounded-retry health check, and
\* the bookkeeping of one check cycle (latency, diagnostic).
EXTENDS Naturals, Integers, Sequences, FiniteSets, TLC

\* ---------------------------------------------------------------- bounds

\* Largest number of configured services in the engine specification.
MaxServices == 2
\* Largest max_retries of a configured service.
MaxRetries == 2
\* Number of check cycles followed for a monitor that runs alone.
MaxCycles == 3

\* ---------------------------------------------------------------- data

Healthy == "Healthy"
Unhealthy == "Unhealthy"
HealthStatus == {Healthy, Unhealthy}

None == "None"

\* The URLs a configuration may name; the empty string does not parse.
Urls == {"http://x/healthy", "http://x/broken", ""}

\* Url::parse(input).is_ok(): an absolute URL with a scheme parses, the empty
\* string does not.
is_valid_url(input) == input \in {"http://x/healthy", "http://x/broken"}

\* One [[services]] entry of the configuration.
ServiceConfig == [url : Urls, max_retries : 0 .. MaxRetries]

\* What one HTTP attempt can yield: a response with a status code, or a
\* transport-level error.
Responses ==
    { [tag |-> "Ok", status |-> 200],
      [tag |-> "Ok", status |-> 500],
      [tag |-> "Err", status |-> 0] }

\* StatusCode::is_success: the 2xx range.
is_success(status) == status >= 200 /\ status <= 299

\* The diagnostic of a non-success response: "HTTP <code>: <reason>".
HttpErrorMessage(status) ==
    IF status = 500 THEN "HTTP 500: Internal Server Error"
    ELSE "HTTP other: Unknown"

\* The diagnostic of a transport error: "Request failed: <cause>".
RequestFailedMessage == "Request failed: error sending request"

\* ---------------------------------------------------------------- state

VARIABLES
    config,           \* the configured services (Vec<ServiceConfig>)
    sup_pc,           \* the supervisor's position: new, built, waiting, returned
    service_monitors, \* MonitoringService.service_monitors (monitor ids)
    task_handles,     \* MonitoringService.task_handles (monitor ids)
    run_result,       \* what MonitoringService::run returned
    service,          \* per monitor: its MonitoredService
    task,             \* per monitor: the task's position and the cycle's locals
    obs,              \* per monitor: what an observer of the task has counted
    first_stopped,    \* the first monitor task that terminated (0: none)
    services,         \* MonitoringState.services: url -> snapshot
    store_writes,     \* per url: upserts performed on the store
    now,              \* the wall clock, in seconds
    write_log,        \* the upserts performed on the store, in order
    last_lookup,      \* what the last point lookup of a reader returned
    last_snapshot,    \* what the last full-snapshot read of a reader returned
    fluxa_config,     \* the notification settings of FluxaConfig
    providers,        \* NotificationManager.providers
    n_pc,             \* send_notification's position: idle, sending, done
    n_message,        \* send_notification's message argument
    n_idx,            \* send_notification: index of the provider tried next
    errors,           \* send_notification's errors vector
    calls,            \* the provider calls of the current send_notification
    send_result,      \* what the last send_notification returned
    lock,             \* the store's RwLock: the writer and the readers holding it
    callers,          \* the store's callers: position in their call, arguments
    dashboard_tx,     \* the monitors' dashboard_tx: None or a sender
    channel,          \* the dashboard channel: its queue, whether its receiver
                      \* is gone, and the events accepted and received so far
    dashboard         \* the Dashboard's DashboardState

\* The state store and what its callers observed.
storeVars == << services, store_writes, now, write_log, last_lookup,
               last_snapshot >>

\* The notification dispatcher and the call in progress.
notifVars == << fluxa_config, providers, n_pc, n_message, n_idx, errors, calls, send_result >>

\* The lock of the store and the calls in progress on it.
lockVars == << lock, callers >>

\* The presentation sink of the monitors and the dashboard behind it.
dashVars == << dashboard_tx, channel, dashboard >>

\* The supervisor, its monitors and their tasks.
engineVars == << config, sup_pc, service_monitors, task_handles, run_result,
                service, task, obs, first_stopped >>

vars == << config, sup_pc, service_monitors, task_handles, run_result,
           service, task, obs, first_stopped, storeVars, notifVars, lockVars,
           dashVars >>

Monitors == DOMAIN service

\* ---------------------------------------------------------------- model.rs

\* MonitoredService::try_from(&ServiceConfig): the initial status is Healthy.
NewMonitoredService(c) ==
    [ url |-> c.url, max_retries |-> c.max_retries, health_status |-> Healthy ]

\* The task of a monitor before it is spawned.
NewTask ==
    [ pc |-> "unspawned", attempt |-> 0, current_health |-> Unhealthy,
      response_time |-> None, error_message |-> None, exit |-> "none" ]

\* What an observer has counted for a monitor: the attempts and retry delays
\* of the current cycle, the verdicts of the cycles, the messages given to
\* the dispatcher with what each call returned, the tasks spawned for it, the
\* results recorded with update_after_check, and the updates given to the
\* dashboard sender.
NewObs ==
    [ outcomes |-> << >>, delays |-> 0, verdicts |-> << >>, sent |-> << >>,
      results |-> << >>, spawns |-> 0, recorded |-> 0, emitted |-> 0 ]

\* ---------------------------------------------------------------- supervisor

RECURSIVE AcceptedConfigs(_)
\* create_services_from_config: a config whose URL does not parse is logged
\* and skipped, the others become monitors, in order.
AcceptedConfigs(cs) ==
    IF cs = << >> THEN << >>
    ELSE IF is_valid_url(Head(cs).url)
         THEN << Head(cs) >> \o AcceptedConfigs(Tail(cs))
         ELSE AcceptedConfigs(Tail(cs))

NoResult == [ kind |-> "none", msg |-> "", task |-> 0 ]

ConfigurationError(m) == [ kind |-> "Configuration", msg |-> m, task |-> 0 ]

\* MonitoringService::new: builds the monitors and always returns Ok.
New ==
    /\ sup_pc = "new"
    /\ LET acc == AcceptedConfigs(config)
           ids == 1 .. Len(acc)
       IN  /\ service' = [ m \in ids |-> NewMonitoredService(acc[m]) ]
           /\ task' = [ m \in ids |-> NewTask ]
           /\ obs' = [ m \in ids |-> NewObs ]
           /\ service_monitors' = [ m \in ids |-> m ]
    /\ sup_pc' = "built"
    /\ UNCHANGED << config, task_handles, run_result, first_stopped,
                    storeVars, notifVars, dashVars, lockVars >>

\* Mutant of StartFails: the emptiness check is missing.
StartFails_Never(monitors) == FALSE

\* start_all_monitoring's guard: it fails when there is no monitor.
StartFails(monitors) == monitors = << >>

\* The state of a task that starts a check cycle.
BeginCycle(t) ==
    [ t EXCEPT !.pc = "probing", !.attempt = 0, !.current_health = Unhealthy,
               !.response_time = None, !.error_message = None ]

\* Mutant of SpawnedTasks: the loop awaits start_monitoring of the first
\* monitor instead of spawning it, and so never comes to the others.
SpawnedTasks_AwaitInLoop(monitors) ==
    IF monitors = << >> THEN << >> ELSE << Head(monitors) >>

\* Mutant of SpawnedTasks: the first monitor is taken but no task is spawned
\* for it.
SpawnedTasks_SkipFirst(monitors) == Tail(monitors)

\* start_all_monitoring's loop: one task is spawned for each monitor taken
\* from service_monitors and its handle pushed, in order.
SpawnedTasks(monitors) == monitors

\* Number of tasks the handles hold for monitor m.
HandlesOf(handles, m) == Cardinality({ i \in DOMAIN handles : handles[i] = m })

\* run, first half: start_all_monitoring. With no monitor it returns the
\* configuration error, which run propagates; otherwise it takes the monitors
\* and spawns one task for each, in order.
StartAll ==
    /\ sup_pc = "built"
    /\ IF StartFails(service_monitors)
       THEN /\ run_result' =
                   ConfigurationError("No services configured for monitoring")
            /\ sup_pc' = "returned"
            /\ UNCHANGED << service_monitors, task_handles, task >>
            /\ UNCHANGED obs
       ELSE /\ task_handles' = SpawnedTasks(service_monitors)
            /\ service_monitors' = << >>
            /\ task' = [ m \in Monitors |->
                   IF HandlesOf(task_handles', m) > 0
                   THEN BeginCycle(task[m]) ELSE task[m] ]
            /\ obs' = [ m \in Monitors |->
                   [ obs[m] EXCEPT !.spawns = @ + HandlesOf(task_handles', m) ] ]
            /\ sup_pc' = "waiting"
            /\ UNCHANGED run_result
    /\ UNCHANGED << config, service, first_stopped, storeVars, notifVars, dashVars, lockVars >>

\* The handle wait_for_any_task_completion awaits: task_handles.pop().
AwaitedHandle(handles) == handles[Len(handles)]

\* run, second half: wait_for_any_task_completion. With no handle it returns
\* a configuration error; otherwise it pops one handle and awaits that task.
\* The join of a panicked task is reported as TaskJoin, the error a task
\* returned as Service.
WaitForAnyTaskCompletion ==
    /\ sup_pc = "waiting"
    /\ IF task_handles = << >>
       THEN /\ run_result' = ConfigurationError("No running monitoring tasks.")
            /\ UNCHANGED task_handles
       ELSE LET h == AwaitedHandle(task_handles)
            IN  /\ task[h].pc = "terminated"
                /\ run_result' =
                       [ kind |-> IF task[h].exit = "panic" THEN "TaskJoin"
                                  ELSE IF task[h].exit = "err" THEN "Service"
                                  ELSE "Ok",
                         msg |-> "", task |-> h ]
                /\ task_handles' = SubSeq(task_handles, 1, Len(task_handles) - 1)
    /\ sup_pc' = "returned"
    /\ UNCHANGED << config, service_monitors, service, task, obs,
                    first_stopped, storeVars, notifVars, dashVars, lockVars >>

\* ---------------------------------------------------------------- health check

\* Mutant of AttemptStep: a success status sets the verdict but does not leave
\* the loop.
AttemptStep_NoBreak(resp, attempt, max_retries) ==
    IF resp.tag = "Ok"
    THEN IF is_success(resp.status)
         THEN [ set_health |-> Healthy, next |-> "continue" ]
         ELSE [ set_health |-> None, next |-> "continue" ]
    ELSE IF attempt < max_retries
         THEN [ set_health |-> None, next |-> "sleep" ]
         ELSE [ set_health |-> Unhealthy, next |-> "break" ]

\* Mutant of AttemptStep: a transport error always sleeps retry_interval,
\* also on the last attempt.
AttemptStep_AlwaysSleep(resp, attempt, max_retries) ==
    IF resp.tag = "Ok"
    THEN IF is_success(resp.status)
         THEN [ set_health |-> Healthy, next |-> "break" ]
         ELSE [ set_health |-> None, next |-> "continue" ]
    ELSE [ set_health |-> None, next |-> "sleep" ]

\* Mutant of AttemptStep: the transport error of the last attempt is returned
\* with `?` as the health check's error.
AttemptStep_Propagate(resp, attempt, max_retries) ==
    IF resp.tag = "Ok"
    THEN IF is_success(resp.status)
         THEN [ set_health |-> Healthy, next |-> "break" ]
         ELSE [ set_health |-> None, next |-> "continue" ]
    ELSE IF attempt < max_retries
         THEN [ set_health |-> None, next |-> "sleep" ]
         ELSE [ set_health |-> None, next |-> "return_err" ]

\* The body of the retry loop for one attempt: what the attempt's result makes
\* the loop do. set_health is the assignment to current_health (None: none),
\* next is break, continue (straight to the next iteration), sleep (wait
\* retry_interval, then the next iteration) or return_err (leave the health
\* check with an error, which ends start_monitoring: no arm does).
AttemptStep(resp, attempt, max_retries) ==
    IF resp.tag = "Ok"
    THEN IF is_success(resp.status)
         THEN [ set_health |-> Healthy, next |-> "break" ]
         ELSE [ set_health |-> None, next |-> "continue" ]
    ELSE IF attempt < max_retries
         THEN [ set_health |-> None, next |-> "sleep" ]
         ELSE [ set_health |-> Unhealthy, next |-> "break" ]

\* Mutant of RangeHasNext: the range 0..max_retries, its end excluded.
RangeHasNext_Exclusive(attempt, max_retries) == attempt + 1 < max_retries

\* for attempt in 0..=max_retries: whether an iteration follows `attempt`.
RangeHasNext(attempt, max_retries) == attempt < max_retries

\* send_request's response_time: set whenever a response arrived, whatever
\* its status, and left as it was on a transport error.
ResponseTimeAfter(resp, old) == IF resp.tag = "Ok" THEN "Some" ELSE old

\* Mutant of ErrorMessageAfter: a success leaves the diagnostic of the
\* attempts before it.
ErrorMessageAfter_KeepOnSuccess(resp, old) ==
    IF resp.tag = "Ok"
    THEN IF is_success(resp.status) THEN old ELSE HttpErrorMessage(resp.status)
    ELSE RequestFailedMessage

\* Mutant of ErrorMessageAfter: the diagnostic of the cycle's first failed
\* attempt is kept by the failed attempts after it.
ErrorMessageAfter_KeepFirst(resp, old) ==
    IF resp.tag = "Ok" /\ is_success(resp.status) THEN None
    ELSE IF old # None THEN old
    ELSE IF resp.tag = "Ok" THEN HttpErrorMessage(resp.status)
    ELSE RequestFailedMessage

\* send_request's error_message after an attempt.
ErrorMessageAfter(resp, old) ==
    IF resp.tag = "Ok"
    THEN IF is_success(resp.status) THEN None ELSE HttpErrorMessage(resp.status)
    ELSE RequestFailedMessage

\* handle_status_change's test: a transition is a verdict that differs from
\* the remembered status.
StatusChanged(current_health, health_status) == current_health # health_status

\* The position of a task whose retry loop has ended: handle_status_change
\* awaits the dispatcher on a transition, and otherwise returns to
\* start_monitoring, which sleeps interval_seconds.
AfterLoop(current_health, health_status) ==
    IF StatusChanged(current_health, health_status) THEN "notifying" ELSE "sleeping"

\* The task with the retry loop ended and the verdict `health`.
EndLoop(m, t, health) ==
    [ t EXCEPT !.current_health = health,
               !.pc = AfterLoop(health, service[m].health_status) ]

\* DashboardEvent::ServiceUpdate(service.url.clone(), service.clone()): the
\* monitor's record once update_after_check was given the cycle's verdict,
\* latency and diagnostic.
ServiceUpdate(url, health, response_time, error_message) ==
    [ url |-> url,
      service |-> [ url |-> url, health_status |-> health,
                    response_time |-> response_time,
                    error_message |-> error_message ] ]

\* The dashboard channel just created: nothing queued, its receiver alive.
\* accepted and received count the events the channel took and handed out.
NewChannel == [ queue |-> << >>, closed |-> FALSE, accepted |-> << >>, received |-> 0 ]

\* UnboundedSender::send: the event is queued behind the ones before it, or
\* refused with an error when the receiver is gone.
send(ch, event) ==
    IF ch.closed
    THEN [ result |-> "Err", channel |-> ch ]
    ELSE [ result |-> "Ok",
           channel |-> [ ch EXCEPT !.queue = Append(@, event),
                                   !.accepted = Append(@, event) ] ]

\* `if let Some(tx) = dashboard_tx { let _ = tx.send(..) }`: the channel
\* after the cycle's update; without a sender nothing is sent.
ChannelAfterUpdate(tx, ch, event) ==
    IF tx = None THEN ch ELSE send(ch, event).channel

\* Mutant of UpdateExit: the error of a refused send is returned with `?`.
UpdateExit_Propagate(tx, ch, event) ==
    IF tx # None /\ send(ch, event).result = "Err" THEN "err" ELSE "none"

\* How the update ends the task: `let _ =` drops the result of the send, so
\* it never does.
UpdateExit(tx, ch, event) == "none"

\* Mutant of EmittedAfter: the update is sent after every attempt.
EmittedAfter_EveryAttempt(n, ended, tx) == IF tx # None THEN n + 1 ELSE n

\* The number of updates given to the sender once an attempt is over: one
\* when the retry loop has ended and there is a sender.
EmittedAfter(n, ended, tx) == IF ended /\ tx # None THEN n + 1 ELSE n

\* The task whose retry loop has ended with the verdict `health` and whose
\* update was given to the sender.
AfterUpdate(m, t, health, exit) ==
    IF exit # "none"
    THEN [ t EXCEPT !.current_health = health, !.pc = "terminated", !.exit = exit ]
    ELSE EndLoop(m, t, health)

\* Mutant of RecordedAfter: the result is recorded after every attempt.
RecordedAfter_EveryAttempt(n, ended) == n + 1

\* The number of results recorded once an attempt is over: the one
\* update_after_check follows the retry loop, none is inside it.
RecordedAfter(n, ended) == IF ended THEN n + 1 ELSE n

\* One HTTP attempt of perform_health_check and what follows it up to the
\* next suspension point.
Probe(m) ==
    /\ task[m].pc = "probing"
    /\ \E resp \in Responses :
         LET t == task[m]
             step == AttemptStep(resp, t.attempt, service[m].max_retries)
             health == IF step.set_health = None THEN t.current_health
                       ELSE step.set_health
             t1 == [ t EXCEPT
                       !.response_time = ResponseTimeAfter(resp, @),
                       !.error_message = ErrorMessageAfter(resp, @) ]
             ended == \/ step.next = "break"
                      \/ /\ step.next = "continue"
                         /\ ~ RangeHasNext(t.attempt, service[m].max_retries)
             event == ServiceUpdate(service[m].url, health, t1.response_time,
                                    t1.error_message)
             exit == IF ended THEN UpdateExit(dashboard_tx, channel, event)
                     ELSE "none"
         IN  /\ task' = [ task EXCEPT ![m] =
                   IF step.next = "return_err"
                   THEN [ t1 EXCEPT !.pc = "terminated", !.exit = "err" ]
                   ELSE IF ended THEN AfterUpdate(m, t1, health, exit)
                   ELSE IF step.next = "sleep"
                        THEN [ t1 EXCEPT !.current_health = health,
                                         !.pc = "retry_sleep" ]
                        ELSE [ t1 EXCEPT !.current_health = health,
                                         !.attempt = @ + 1 ] ]
             /\ obs' = [ obs EXCEPT ![m] =
                   [ @ EXCEPT
                       !.outcomes = Append(@, resp),
                       !.delays = IF ~ ended /\ step.next = "sleep"
                                  THEN @ + 1 ELSE @,
                       !.verdicts = IF ended THEN Append(@, health) ELSE @,
                       !.recorded = RecordedAfter(@, ended),
                       !.emitted = EmittedAfter(@, ended, dashboard_tx) ] ]
             /\ channel' = IF ended
                           THEN ChannelAfterUpdate(dashboard_tx, channel, event)
                           ELSE channel
             /\ first_stopped' =
                   IF task'[m].pc = "terminated" /\ first_stopped = 0
                   THEN m ELSE first_stopped
    /\ UNCHANGED << config, sup_pc, service_monitors, task_handles, run_result,
                    service, storeVars, notifVars, lockVars, dashboard_tx,
                    dashboard >>

\* The retry delay elapses: the loop goes to its next iteration, or ends when
\* the range is exhausted.
RetryWake(m) ==
    /\ task[m].pc = "retry_sleep"
    /\ LET t == task[m]
           event == ServiceUpdate(service[m].url, t.current_health,
                                  t.response_time, t.error_message)
       IN  IF RangeHasNext(t.attempt, service[m].max_retries)
           THEN /\ task' = [ task EXCEPT ![m] =
                      [ t EXCEPT !.attempt = @ + 1, !.pc = "probing" ] ]
                /\ UNCHANGED << obs, channel >>
           ELSE /\ task' = [ task EXCEPT ![m] =
                      AfterUpdate(m, t, t.current_health,
                                  UpdateExit(dashboard_tx, channel, event)) ]
                /\ obs' = [ obs EXCEPT
                      ![m].verdicts = Append(@, t.current_health),
                      ![m].recorded = RecordedAfter(@, TRUE),
                      ![m].emitted = EmittedAfter(@, TRUE, dashboard_tx) ]
                /\ channel' = ChannelAfterUpdate(dashboard_tx, channel, event)
    /\ first_stopped' =
          IF task'[m].pc = "terminated" /\ first_stopped = 0
          THEN m ELSE first_stopped
    /\ UNCHANGED << config, sup_pc, service_monitors, task_handles, run_result,
                    service, storeVars, notifVars, lockVars, dashboard_tx,
                    dashboard >>

\* Mutant of NotificationMessage: the two texts are exchanged.
NotificationMessage_Swapped(url, health) ==
    IF health = Healthy THEN << url, " is unhealthy!" >>
    ELSE << url, " is now healthy!" >>

\* The message handle_status_change builds for a transition to `health`.
NotificationMessage(url, health) ==
    IF health = Healthy THEN << url, " is now healthy!" >>
    ELSE << url, " is unhealthy!" >>

\* What a call of the dispatcher can do: return Ok, return Err (both only
\* logged), or panic (ConsoleProvider's println! on a closed stdout), which
\* ends the task.
DispatchOutcomes == { "Ok", "Err", "Panic" }

\* Mutant of RememberedStatus: the remembered status is never updated.
RememberedStatus_Stale(current_health, health_status) == health_status

\* The status the monitor remembers after a transition was handled.
RememberedStatus(current_health, health_status) == current_health

\* Mutant of DispatchExit: the dispatcher's error is returned with `?`.
DispatchExit_Propagate(outcome) ==
    IF outcome = "Panic" THEN "panic"
    ELSE IF outcome = "Err" THEN "err" ELSE "none"

\* How the dispatcher's outcome ends the task: `if let Err(e)` only logs the
\* error, and only a panic unwinds the task.
DispatchExit(outcome) == IF outcome = "Panic" THEN "panic" ELSE "none"

\* Mutant of StatusAfterDispatch: the new status is remembered only when the
\* notification was delivered, so that a failed one is sent again.
StatusAfterDispatch_OnlyDelivered(outcome, current_health, health_status) ==
    IF outcome = "Err" THEN health_status ELSE current_health

\* The status remembered once the dispatcher has returned `outcome`: the
\* assignment follows the if-let and does not read the result.
StatusAfterDispatch(outcome, current_health, health_status) ==
    RememberedStatus(current_health, health_status)

\* handle_status_change on a transition: the dispatcher is called with the
\* message, its result is only logged, and the new status is remembered.
Notify(m) ==
    /\ task[m].pc = "notifying"
    /\ \E outcome \in DispatchOutcomes :
         /\ obs' = [ obs EXCEPT
               ![m].sent = Append(@, NotificationMessage(service[m].url,
                                                         task[m].current_health)),
               ![m].results = Append(@, outcome) ]
         /\ IF DispatchExit(outcome) # "none"
            THEN /\ task' = [ task EXCEPT ![m].pc = "terminated",
                                          ![m].exit = DispatchExit(outcome) ]
                 /\ first_stopped' =
                       IF first_stopped = 0 THEN m ELSE first_stopped
                 /\ UNCHANGED service
            ELSE /\ service' = [ service EXCEPT ![m].health_status =
                       StatusAfterDispatch(outcome, task[m].current_health, @) ]
                 /\ task' = [ task EXCEPT ![m].pc = "sleeping" ]
                 /\ UNCHANGED first_stopped
    /\ UNCHANGED << config, sup_pc, service_monitors, task_handles, run_result,
                    storeVars, notifVars, dashVars, lockVars >>

\* Number of cycles followed for each monitor: MaxCycles for a monitor that
\* runs alone, and one cycle each for monitors that run concurrently.
CycleCap == IF Cardinality(Monitors) <= 1 THEN MaxCycles ELSE 1

\* Mutant of CanStartCycle: the loop ends after its first iteration.
CanStartCycle_Never(t) == FALSE

\* Mutant of CanStartCycle: the next cycle does not wait for the dispatcher's
\* call of the cycle before.
CanStartCycle_Early(t) == t.pc \in { "sleeping", "notifying" }

\* The loop of start_monitoring goes to its next iteration from the sleep
\* that follows perform_health_check().await, and from nowhere else.
CanStartCycle(t) == t.pc = "sleeping"

\* start_monitoring's sleep of interval_seconds elapses and the next cycle
\* starts.
Wake(m) ==
    /\ CanStartCycle(task[m])
    /\ Len(obs[m].verdicts) < CycleCap
    /\ task' = [ task EXCEPT ![m] = BeginCycle(@) ]
    /\ obs' = [ obs EXCEPT ![m].outcomes = << >>, ![m].delays = 0 ]
    /\ UNCHANGED << config, sup_pc, service_monitors, task_handles, run_result,
                    service, first_stopped, storeVars, notifVars, dashVars, lockVars >>

\* ----------------------------------------------------------------------- store

\* Largest number of upserts followed.
MaxWrites == 2

\* Largest value of the clock, in seconds.
MaxNow == 1

\* An Option of a value that is not a text: Some(x), and Nothing for None.
Some(x) == << x >>

Nothing == << >>

\* The timestamps and intervals are u64: the model keeps the wrap-around of
\* their addition with words of 9 bits instead of 64.
U64Modulus == 512

U64Max == U64Modulus - 1

\* now + next_check_in_seconds as the build computes it: an overflow panics
\* in a build with overflow checks (Nothing: no value) and wraps otherwise.
AddU64(a, b, build) ==
    IF a + b < U64Modulus THEN Some(a + b)
    ELSE IF build = "debug" THEN Nothing
    ELSE Some((a + b) % U64Modulus)

Builds == { "debug", "release" }

\* The arguments of an upsert other than the key: a healthy and an unhealthy
\* one of state.rs's tests, and a healthy one with the longest interval a
\* configuration can give.
WriteInputs ==
    { [ status |-> Healthy, response_time_ms |-> Some(250), error |-> None,
        retry_count |-> 0, next_check_in_seconds |-> 300 ],
      [ status |-> Unhealthy, response_time_ms |-> Nothing,
        error |-> "HTTP 500 - Internal Server Error",
        retry_count |-> 2, next_check_in_seconds |-> 60 ],
      [ status |-> Healthy, response_time_ms |-> Some(100), error |-> None,
        retry_count |-> 0, next_check_in_seconds |-> U64Max ] }

\* MonitoringStats::default() at time `clock`.
DefaultStats(clock) ==
    [ status |-> Healthy, last_response_time_ms |-> Nothing,
      last_check_timestamp |-> clock, next_check_timestamp |-> clock,
      last_error |-> None, current_retry_count |-> 0 ]

\* Mutant of MonitoringStats: the retry count is left at its default.
MonitoringStats_NoRetryCount(status, response_time_ms, error, retry_count, next_check_in_seconds, clock) ==
    [ status |-> status,
      last_response_time_ms |-> response_time_ms,
      last_check_timestamp |-> clock,
      next_check_timestamp |-> (clock + next_check_in_seconds) % U64Modulus,
      last_error |-> error,
      current_retry_count |-> 0 ]

\* The snapshot update_service_stats builds from its arguments and the clock.
MonitoringStats(status, response_time_ms, error, retry_count, next_check_in_seconds, clock) ==
    [ status |-> status,
      last_response_time_ms |-> response_time_ms,
      last_check_timestamp |-> clock,
      next_check_timestamp |-> (clock + next_check_in_seconds) % U64Modulus,
      last_error |-> error,
      current_retry_count |-> retry_count ]

\* Mutant of update_service_stats: the fields the new snapshot does not carry
\* are kept from the snapshot the key had.
update_service_stats_Merge(svcs, url, stats) ==
    [ u \in DOMAIN svcs \cup { url } |->
        IF u # url THEN svcs[u]
        ELSE IF url \notin DOMAIN svcs THEN stats
        ELSE [ stats EXCEPT
                 !.last_response_time_ms =
                     IF @ = Nothing THEN svcs[url].last_response_time_ms ELSE @,
                 !.last_error =
                     IF @ = None THEN svcs[url].last_error ELSE @ ] ]

\* Mutant of update_service_stats: the map is replaced by one holding the
\* written key alone.
update_service_stats_Alone(svcs, url, stats) == [ u \in { url } |-> stats ]

\* self.services.insert(url, stats): the snapshot of url is stats, whatever it
\* was, and the other keys keep theirs.
update_service_stats(svcs, url, stats) ==
    [ u \in DOMAIN svcs \cup { url } |-> IF u = url THEN stats ELSE svcs[u] ]

\* Mutant of get_service: a key that is not in the map gets a default snapshot.
get_service_OrDefault(svcs, url, clock) ==
    IF url \in DOMAIN svcs THEN Some(svcs[url]) ELSE Some(DefaultStats(clock))

\* self.services.get(url).cloned(): Some(copy of the snapshot) or None.
get_service(svcs, url, clock) ==
    IF url \in DOMAIN svcs THEN Some(svcs[url]) ELSE Nothing

\* update_service_state: under the write lock, the snapshot of url is replaced
\* by one built from the arguments and the time of the call. A call that
\* panics on the overflow of its addition writes nothing.
UpdateServiceState ==
    /\ Len(write_log) < MaxWrites
    /\ \E url \in Urls, w \in WriteInputs, build \in Builds :
         /\ AddU64(now, w.next_check_in_seconds, build) # Nothing
         /\ services' = update_service_stats(services, url,
                MonitoringStats(w.status, w.response_time_ms, w.error,
                                w.retry_count, w.next_check_in_seconds, now))
         /\ store_writes' = [ store_writes EXCEPT ![url] = @ + 1 ]
         /\ write_log' = Append(write_log, [ url |-> url, input |-> w, at |-> now ])
    /\ UNCHANGED << config, sup_pc, service_monitors, task_handles, run_result,
                    service, task, obs, first_stopped, now, last_lookup,
                    last_snapshot, notifVars, dashVars, lockVars >>

\* get_service_state: under the read lock, the point lookup of url. The
\* reader keeps the result and the number of upserts that preceded the lookup.
GetServiceState ==
    /\ \E url \in Urls :
         last_lookup' = [ key |-> url,
                          result |-> get_service(services, url, now),
                          writes |-> Len(write_log) ]
    /\ UNCHANGED << config, sup_pc, service_monitors, task_handles, run_result,
                    service, task, obs, first_stopped, services, store_writes,
                    now, write_log, last_snapshot, notifVars, dashVars, lockVars >>

\* Mutant of get_all_services: the reader is given the store's own map.
get_all_services_Borrow(svcs) == [ kind |-> "borrowed", map |-> svcs ]

\* self.services.clone(): the reader owns a map with the store's entries.
get_all_services(svcs) == [ kind |-> "owned", map |-> svcs ]

\* get_all_service_states: under the read lock, the full-snapshot read. The
\* reader keeps the map and the number of upserts that preceded the read.
GetAllServiceStates ==
    /\ last_snapshot' =
          LET r == get_all_services(services)
          IN  [ kind |-> r.kind, map |-> r.map, writes |-> Len(write_log) ]
    /\ UNCHANGED << config, sup_pc, service_monitors, task_handles, run_result,
                    service, task, obs, first_stopped, services, store_writes,
                    now, write_log, last_lookup, notifVars, dashVars, lockVars >>

\* A second passes.
Tick ==
    /\ now < MaxNow
    /\ now' = now + 1
    /\ UNCHANGED << config, sup_pc, service_monitors, task_handles, run_result,
                    service, task, obs, first_stopped, services, store_writes,
                    write_log, last_lookup, last_snapshot, notifVars, dashVars, lockVars >>

\* ------------------------------------------------------------------------ lock

\* The writers of the store, one for each target that can be monitored, and
\* its readers: the API's handlers and the dashboard.
Writers == { u \in Urls : is_valid_url(u) }

Readers == { "api", "dashboard" }

\* tokio's RwLock with nobody holding it and nobody waiting for it: the
\* callers that wait are queued first-in, first-out.
Unlocked == [ writer |-> None, readers |-> {}, queue |-> << >> ]

IdleCaller == [ pc |-> "idle", op |-> None, url |-> None, stats |-> None ]

\* state.write().await is granted only when nobody holds the lock.
CanWrite(l) == l.writer = None /\ l.readers = {}

\* Mutant of CanRead: a reader does not wait for the writer.
CanRead_Always(l) == TRUE

\* state.read().await is granted only when no writer holds the lock.
CanRead(l) == l.writer = None

\* The value of url in the map while insert is overwriting it with stats: the
\* first fields of the record are the new ones, the others still the old
\* ones. A key that is new to the map is not visible before the insert ends.
InsertInProgress(svcs, url, stats) ==
    IF url \in DOMAIN svcs
    THEN [ svcs EXCEPT ![url] =
             [ @ EXCEPT !.status = stats.status,
                        !.last_response_time_ms = stats.last_response_time_ms,
                        !.last_check_timestamp = stats.last_check_timestamp ] ]
    ELSE svcs

\* update_service_state up to the insert: the writer of url is granted the
\* write lock, update_service_stats reads the clock and builds the snapshot.
WriteLock(w) ==
    /\ w \in DOMAIN callers
    /\ callers[w].pc = "idle"
    /\ Len(write_log) < MaxWrites
    /\ CanWrite(lock)
    /\ lock.queue = << >>
    /\ lock' = [ lock EXCEPT !.writer = w ]
    /\ \E i \in WriteInputs, build \in Builds :
         /\ AddU64(now, i.next_check_in_seconds, build) # Nothing
         /\ callers' = [ callers EXCEPT ![w] =
               [ pc |-> "built", op |-> i, url |-> w,
                 stats |-> MonitoringStats(i.status, i.response_time_ms, i.error,
                               i.retry_count, i.next_check_in_seconds, now) ] ]
    /\ UNCHANGED << engineVars, storeVars, notifVars, dashVars >>

\* self.services.insert(url, stats) has started to write the record.
InsertBegin(w) ==
    /\ w \in DOMAIN callers
    /\ callers[w].pc = "built"
    /\ services' = InsertInProgress(services, callers[w].url, callers[w].stats)
    /\ callers' = [ callers EXCEPT ![w].pc = "inserting" ]
    /\ UNCHANGED << engineVars, store_writes, now, write_log, last_lookup,
                    last_snapshot, notifVars, dashVars, lock >>

\* Mutant of ReleaseWrite: the write guard outlives the call.
ReleaseWrite_Kept(l) == l

\* The write guard is dropped at the end of update_service_state.
ReleaseWrite(l) == [ l EXCEPT !.writer = None ]

\* The insert is complete and update_service_state returns, which drops the
\* write guard.
InsertEnd(w) ==
    /\ w \in DOMAIN callers
    /\ callers[w].pc = "inserting"
    /\ services' = update_service_stats(services, callers[w].url, callers[w].stats)
    /\ store_writes' = [ store_writes EXCEPT ![callers[w].url] = @ + 1 ]
    /\ write_log' = Append(write_log,
           [ url |-> callers[w].url, input |-> callers[w].op,
             at |-> callers[w].stats.last_check_timestamp ])
    /\ lock' = ReleaseWrite(lock)
    /\ callers' = [ callers EXCEPT ![w] = IdleCaller ]
    /\ UNCHANGED << engineVars, now, last_lookup, last_snapshot, notifVars, dashVars >>

\* Mutant of AcquireRead: the reader takes the write lock.
AcquireRead_AsWriter(l, r) == [ l EXCEPT !.writer = r ]

\* state.read().await granted to r: r is one more holder of the read lock.
AcquireRead(l, r) == [ l EXCEPT !.readers = @ \cup { r } ]

\* get_service_state or get_all_service_states up to the clone: the reader is
\* granted a read lock.
ReadLock(r) ==
    /\ r \in DOMAIN callers
    /\ callers[r].pc = "idle"
    /\ CanRead(lock)
    /\ lock.queue = << >>
    /\ lock' = AcquireRead(lock, r)
    /\ \E op \in { "get_service", "get_all_services" }, url \in Writers :
         callers' = [ callers EXCEPT ![r] =
             [ pc |-> "reading", op |-> op,
               url |-> IF op = "get_service" THEN url ELSE None,
               stats |-> None ] ]
    /\ UNCHANGED << engineVars, storeVars, notifVars, dashVars >>

\* The reader clones the entry or the map and returns, which drops its read
\* guard.
ReadClone(r) ==
    /\ r \in DOMAIN callers
    /\ callers[r].pc = "reading"
    /\ IF callers[r].op = "get_service"
       THEN /\ last_lookup' =
                  [ key |-> callers[r].url,
                    result |-> get_service(services, callers[r].url, now),
                    writes |-> Len(write_log) ]
            /\ UNCHANGED last_snapshot
       ELSE /\ last_snapshot' =
                  LET m == get_all_services(services)
                  IN  [ kind |-> m.kind, map |-> m.map,
                        writes |-> Len(write_log) ]
            /\ UNCHANGED last_lookup
    /\ lock' = [ lock EXCEPT !.readers = @ \ { r } ]
    /\ callers' = [ callers EXCEPT ![r] = IdleCaller ]
    /\ UNCHANGED << engineVars, services, store_writes, now, write_log,
                    notifVars, dashVars >>

\* state.write().await cannot be granted at once: the writer of url is queued
\* behind the callers already waiting.
WriteWait(w) ==
    /\ w \in DOMAIN callers
    /\ callers[w].pc = "idle"
    /\ Len(write_log) < MaxWrites
    /\ ~ (CanWrite(lock) /\ lock.queue = << >>)
    /\ lock' = [ lock EXCEPT !.queue = Append(@, w) ]
    /\ callers' = [ callers EXCEPT ![w].pc = "waiting" ]
    /\ UNCHANGED << engineVars, storeVars, notifVars, dashVars >>

\* The writer at the head of the queue is granted the write lock once nobody
\* holds it; update_service_stats reads the clock and builds the snapshot.
WriteGrant(w) ==
    /\ w \in DOMAIN callers
    /\ callers[w].pc = "waiting"
    /\ lock.queue # << >>
    /\ Head(lock.queue) = w
    /\ CanWrite(lock)
    /\ lock' = [ lock EXCEPT !.writer = w, !.queue = Tail(@) ]
    /\ \E i \in WriteInputs, build \in Builds :
         /\ AddU64(now, i.next_check_in_seconds, build) # Nothing
         /\ callers' = [ callers EXCEPT ![w] =
               [ pc |-> "built", op |-> i, url |-> w,
                 stats |-> MonitoringStats(i.status, i.response_time_ms, i.error,
                               i.retry_count, i.next_check_in_seconds, now) ] ]
    /\ UNCHANGED << engineVars, storeVars, notifVars, dashVars >>

\* state.read().await cannot be granted at once: a writer holds the lock, or
\* callers are queued before the reader.
ReadWait(r) ==
    /\ r \in DOMAIN callers
    /\ callers[r].pc = "idle"
    /\ ~ (CanRead(lock) /\ lock.queue = << >>)
    /\ lock' = [ lock EXCEPT !.queue = Append(@, r) ]
    /\ callers' = [ callers EXCEPT ![r].pc = "waiting" ]
    /\ UNCHANGED << engineVars, storeVars, notifVars, dashVars >>

\* The reader at the head of the queue is granted a read lock once no writer
\* holds the lock.
ReadGrant(r) ==
    /\ r \in DOMAIN callers
    /\ callers[r].pc = "waiting"
    /\ lock.queue # << >>
    /\ Head(lock.queue) = r
    /\ CanRead(lock)
    /\ lock' = [ AcquireRead(lock, r) EXCEPT !.queue = Tail(@) ]
    /\ \E op \in { "get_service", "get_all_services" }, url \in Writers :
         callers' = [ callers EXCEPT ![r] =
             [ pc |-> "reading", op |-> op,
               url |-> IF op = "get_service" THEN url ELSE None,
               stats |-> None ] ]
    /\ UNCHANGED << engineVars, storeVars, notifVars, dashVars >>

\* The groups of callers followed together in the specification with the
\* queue of the lock: one caller, or two that contend for the lock.
CallerSets == { { a, b } : a, b \in Writers \cup Readers }

\* ------------------------------------------------------------------- dashboard

FilterModes == { "All", "HealthyOnly", "UnhealthyOnly" }

SortModes == { "Url", "Status", "ResponseTime", "NextCheck" }

\* DashboardState::new. last_update is the time of the last update.
NewDashboardState ==
    [ services |-> << >>, filter_mode |-> "All", sort_mode |-> "Url",
      selected_index |-> 0, last_update |-> 0 ]

\* DashboardState::update_service: the entry of url is replaced.
update_service(state, url, svc, clock) ==
    [ state EXCEPT
        !.services = [ u \in DOMAIN state.services \cup { url } |->
                         IF u = url THEN svc ELSE state.services[u] ],
        !.last_update = clock ]

\* The filter of get_filtered_services.
PassesFilter(svc, mode) ==
    IF mode = "All" THEN TRUE
    ELSE IF mode = "HealthyOnly" THEN svc.health_status = Healthy
    ELSE svc.health_status = Unhealthy

\* String order of the URLs of the model.
UrlRank(url) ==
    IF url = "" THEN 0 ELSE IF url = "http://x/broken" THEN 1 ELSE 2

\* The comparators of get_filtered_services, as a key that grows along the
\* sorted list: by URL; Unhealthy before Healthy, then by URL; a latency
\* before none, then by URL. The model's latencies and next checks have no
\* magnitude, and equal ones are left in URL order.
SortKey(svc, mode) ==
    IF mode = "Status"
    THEN (IF svc.health_status = Unhealthy THEN 0 ELSE 3) + UrlRank(svc.url)
    ELSE IF mode = "ResponseTime"
    THEN (IF svc.response_time # None THEN 0 ELSE 3) + UrlRank(svc.url)
    ELSE UrlRank(svc.url)

RECURSIVE SortedBy(_, _, _)
\* The services of the URLs in S, in the order of the sort mode.
SortedBy(S, svcs, mode) ==
    IF S = {} THEN << >>
    ELSE LET first == CHOOSE a \in S :
                 \A b \in S : SortKey(svcs[a], mode) <= SortKey(svcs[b], mode)
         IN  << svcs[first] >> \o SortedBy(S \ { first }, svcs, mode)

\* DashboardState::get_filtered_services: the services that pass the filter,
\* sorted.
get_filtered_services(state) ==
    SortedBy({ u \in DOMAIN state.services :
                 PassesFilter(state.services[u], state.filter_mode) },
             state.services, state.sort_mode)

\* DashboardState::toggle_filter.
toggle_filter(state) ==
    [ state EXCEPT
        !.filter_mode = IF @ = "All" THEN "HealthyOnly"
                        ELSE IF @ = "HealthyOnly" THEN "UnhealthyOnly"
                        ELSE "All",
        !.selected_index = 0 ]

\* DashboardState::toggle_sort.
toggle_sort(state) ==
    [ state EXCEPT
        !.sort_mode = IF @ = "Url" THEN "Status"
                      ELSE IF @ = "Status" THEN "ResponseTime"
                      ELSE IF @ = "ResponseTime" THEN "NextCheck"
                      ELSE "Url",
        !.selected_index = 0 ]

\* DashboardState::select_previous.
select_previous(state) ==
    LET filtered_count == Len(get_filtered_services(state))
    IN  IF filtered_count > 0
        THEN [ state EXCEPT !.selected_index =
                 IF @ = 0 THEN filtered_count - 1 ELSE @ - 1 ]
        ELSE state

\* DashboardState::select_next.
select_next(state) ==
    LET filtered_count == Len(get_filtered_services(state))
    IN  IF filtered_count > 0
        THEN [ state EXCEPT !.selected_index = (@ + 1) % filtered_count ]
        ELSE state

\* Mutant of try_recv: the newest event is handed out first.
try_recv_Newest(ch) ==
    [ event |-> ch.queue[Len(ch.queue)],
      channel |-> [ ch EXCEPT !.queue = SubSeq(@, 1, Len(@) - 1),
                              !.received = @ + 1 ] ]

\* UnboundedReceiver::try_recv on a channel that is not empty: the oldest
\* event, and the channel without it.
try_recv(ch) ==
    [ event |-> Head(ch.queue),
      channel |-> [ ch EXCEPT !.queue = Tail(@), !.received = @ + 1 ] ]

\* One turn of `while let Ok(event) = self.rx.try_recv()` in Dashboard::run:
\* the event received is applied with update_service.
Recv ==
    /\ dashboard_tx # None
    /\ ~ channel.closed
    /\ channel.queue # << >>
    /\ LET got == try_recv(channel)
       IN  /\ channel' = got.channel
           /\ dashboard' = update_service(dashboard, got.event.url,
                                          got.event.service, now)
    /\ UNCHANGED << engineVars, storeVars, notifVars, lockVars, dashboard_tx >>

\* The key q or Esc ends Dashboard::run; the dashboard and its receiver are
\* dropped, with the events still queued.
Quit ==
    /\ dashboard_tx # None
    /\ ~ channel.closed
    /\ channel' = [ channel EXCEPT !.closed = TRUE, !.queue = << >> ]
    /\ UNCHANGED << engineVars, storeVars, notifVars, lockVars, dashboard_tx,
                    dashboard >>

\* The services an update may carry when update_service is called directly.
UpdatedServices ==
    { ServiceUpdate(u, h, r, None).service :
        u \in { x \in Urls : is_valid_url(x) }, h \in HealthStatus,
        r \in { None, "Some" } }

\* update_service called with any service.
UpdateService ==
    /\ \E svc \in UpdatedServices :
          dashboard' = update_service(dashboard, svc.url, svc, now)
    /\ UNCHANGED << engineVars, storeVars, notifVars, lockVars, dashboard_tx,
                    channel >>

\* The key f.
ToggleFilter ==
    /\ dashboard' = toggle_filter(dashboard)
    /\ UNCHANGED << engineVars, storeVars, notifVars, lockVars, dashboard_tx,
                    channel >>

\* The key s.
ToggleSort ==
    /\ dashboard' = toggle_sort(dashboard)
    /\ UNCHANGED << engineVars, storeVars, notifVars, lockVars, dashboard_tx,
                    channel >>

\* The key Up or k.
SelectPrevious ==
    /\ dashboard' = select_previous(dashboard)
    /\ UNCHANGED << engineVars, storeVars, notifVars, lockVars, dashboard_tx,
                    channel >>

\* The key Down or j.
SelectNext ==
    /\ dashboard' = select_next(dashboard)
    /\ UNCHANGED << engineVars, storeVars, notifVars, lockVars, dashboard_tx,
                    channel >>

\* ------------------------------------------------------------------ dispatcher

\* Largest number of providers registered with a dispatcher.
MaxProviders == 2

\* provider_name() of the implementations of NotificationProvider.
ProviderNames == { "Console", "Pushover", "Telegram" }

OkResult == [ tag |-> "Ok", variant |-> None, message |-> None ]

\* println! panics when standard output cannot be written.
PanicResult == [ tag |-> "Panic", variant |-> None, message |-> None ]

\* What one provider's send_notification can return. Console prints and
\* returns Ok, unless the print panics; Pushover maps a transport error to HttpRequest and a refusal
\* of the API to SendFailed; Telegram returns SendFailed for both.
ProviderResults(name) ==
    IF name = "Console" THEN { OkResult, PanicResult }
    ELSE IF name = "Pushover"
    THEN { OkResult,
           [ tag |-> "Err", variant |-> "HttpRequest", message |-> "timed out" ],
           [ tag |-> "Err", variant |-> "SendFailed",
             message |-> "Pushover API error: invalid token" ] }
    ELSE { OkResult,
           [ tag |-> "Err", variant |-> "SendFailed",
             message |-> "HTTP request failed: timed out" ],
           [ tag |-> "Err", variant |-> "SendFailed",
             message |-> "Telegram API error: Unauthorized" ] }

\* A text is the sequence of the pieces a format! puts together.
\* Display of a NotificationError.
Display(e) ==
    IF e.variant = "HttpRequest"
    THEN << "HTTP request failed: ", e.message >>
    ELSE << "Failed to send notification: ", e.message >>

\* Mutant of ErrorEntry: the provider's name is left out of the entry.
ErrorEntry_NoName(name, e) == Display(e)

\* format!("{}: {}", provider.provider_name(), e)
ErrorEntry(name, e) == << name, ": " >> \o Display(e)

RECURSIVE Join(_, _)
\* entries.join(sep)
Join(entries, sep) ==
    IF entries = << >> THEN << >>
    ELSE IF Len(entries) = 1 THEN Head(entries)
    ELSE Head(entries) \o << sep >> \o Join(Tail(entries), sep)

\* format!("All providers failed: {}", errors.join(", "))
AllFailedMessage(errs) == << "All providers failed: " >> \o Join(errs, ", ")

\* Mutant of SendFails: the call fails as soon as one provider failed.
SendFails_Any(errs, provs) == errs # << >>

\* errors.len() == self.providers.len()
SendFails(errs, provs) == Len(errs) = Len(provs)

\* Mutant of NextProviderIndex: a provider that succeeded ends the loop.
NextProviderIndex_StopOnOk(idx, result, provs) ==
    IF result.tag = "Ok" THEN Len(provs) + 1 ELSE idx + 1

\* `for provider in &self.providers`: the loop goes to the next provider
\* whatever the provider returned.
NextProviderIndex(idx, result, provs) == idx + 1

\* The values of a Pushover key: left at its default, or given.
PushoverKeys == { "", "key" }

\* FluxaConfig.telegram: no section, or a section with its two fields.
TelegramSections ==
    { Nothing, Some([ bot_token |-> "token", chat_id |-> "chat" ]) }

\* The notification settings of FluxaConfig.
FluxaConfigs ==
    [ pushover_api_key : PushoverKeys, pushover_user_key : PushoverKeys,
      telegram : TelegramSections ]

\* The settings when the file names no notification setting.
DefaultFluxaConfig ==
    [ pushover_api_key |-> "", pushover_user_key |-> "", telegram |-> Nothing ]

\* add_provider: the provider is pushed at the end of the list.
add_provider(list, name) == Append(list, name)

\* Mutant of from_config: the Console provider is not registered.
from_config_NoConsole(c) ==
    LET pushover == IF c.pushover_api_key # "" /\ c.pushover_user_key # ""
                    THEN add_provider(<< >>, "Pushover")
                    ELSE << >>
    IN  IF c.telegram # Nothing
        THEN add_provider(pushover, "Telegram")
        ELSE pushover

\* Mutant of from_config: Pushover is registered when either key is given.
from_config_EitherKey(c) ==
    LET console == add_provider(<< >>, "Console")
        pushover == IF c.pushover_api_key # "" \/ c.pushover_user_key # ""
                    THEN add_provider(console, "Pushover")
                    ELSE console
    IN  IF c.telegram # Nothing
        THEN add_provider(pushover, "Telegram")
        ELSE pushover

\* NotificationManager::from_config: Console always, Pushover when both keys
\* are non-empty, Telegram when the settings have a telegram section.
from_config(c) ==
    LET console == add_provider(<< >>, "Console")
        pushover == IF c.pushover_api_key # "" /\ c.pushover_user_key # ""
                    THEN add_provider(console, "Pushover")
                    ELSE console
    IN  IF c.telegram # Nothing
        THEN add_provider(pushover, "Telegram")
        ELSE pushover

\* URLs that parse and hold the words the Telegram provider looks for.
AlertUrls == { "http://down/x", "http://x/unhealthy" }

\* The messages the monitors give to the dispatcher.
Messages ==
    { NotificationMessage(u, h) :
        u \in { x \in Urls : is_valid_url(x) } \cup AlertUrls,
        h \in HealthStatus }

\* The characters of the strings of the model.
Chars(s) ==
    IF s = "http://x/healthy"
    THEN << "h", "t", "t", "p", ":", "/", "/", "x", "/", "h", "e", "a", "l", "t", "h", "y" >>
    ELSE IF s = "http://x/broken"
    THEN << "h", "t", "t", "p", ":", "/", "/", "x", "/", "b", "r", "o", "k", "e", "n" >>
    ELSE IF s = "http://down/x"
    THEN << "h", "t", "t", "p", ":", "/", "/", "d", "o", "w", "n", "/", "x" >>
    ELSE IF s = "http://x/unhealthy"
    THEN << "h", "t", "t", "p", ":", "/", "/", "x", "/", "u", "n", "h", "e", "a", "l", "t", "h", "y" >>
    ELSE IF s = " is now healthy!"
    THEN << " ", "i", "s", " ", "n", "o", "w", " ", "h", "e", "a", "l", "t", "h", "y", "!" >>
    ELSE IF s = " is unhealthy!"
    THEN << " ", "i", "s", " ", "u", "n", "h", "e", "a", "l", "t", "h", "y", "!" >>
    ELSE IF s = "unhealthy"
    THEN << "u", "n", "h", "e", "a", "l", "t", "h", "y" >>
    ELSE IF s = "down"
    THEN << "d", "o", "w", "n" >>
    ELSE << >>

RECURSIVE TextChars(_)
\* The characters of a text, piece after piece.
TextChars(text) ==
    IF text = << >> THEN << >>
    ELSE Chars(Head(text)) \o TextChars(Tail(text))

\* str::contains: the pattern is a contiguous part of the text.
Contains(hay, needle) ==
    \E i \in 1 .. (Len(hay) + 1 - Len(needle)) :
        SubSeq(hay, i, i + Len(needle) - 1) = needle

\* TelegramProvider::format_message: a Service Alert when the message
\* contains "unhealthy" or "down", a Service Recovery otherwise; the message
\* follows the title.
format_message(message) ==
    LET text == TextChars(message)
    IN  IF Contains(text, Chars("unhealthy")) \/ Contains(text, Chars("down"))
        THEN [ title |-> "Service Alert", message |-> message ]
        ELSE [ title |-> "Service Recovery", message |-> message ]

\* What a provider sends for a message: Telegram its formatted text, Console
\* and Pushover the message itself.
ProviderText(name, message) ==
    IF name = "Telegram" THEN format_message(message)
    ELSE [ title |-> None, message |-> message ]

\* Mutant of ReturnsAtOnce: the call goes to its loop with no provider too.
ReturnsAtOnce_Never(provs) == FALSE

\* `if self.providers.is_empty() { return Ok(()) }`
ReturnsAtOnce(provs) == provs = << >>

\* send_notification up to its loop: with no provider it returns Ok at once.
SendNotification ==
    /\ n_pc = "idle"
    /\ \E message \in Messages : n_message' = message
    /\ IF ReturnsAtOnce(providers)
       THEN /\ send_result' = [ kind |-> "Ok", message |-> << >> ]
            /\ n_pc' = "done"
            /\ UNCHANGED << n_idx, errors, calls >>
       ELSE /\ n_pc' = "sending"
            /\ n_idx' = 1
            /\ errors' = << >>
            /\ calls' = << >>
            /\ UNCHANGED send_result
    /\ UNCHANGED << config, sup_pc, service_monitors, task_handles, run_result,
                    service, task, obs, first_stopped, storeVars, lockVars, dashVars,
                    fluxa_config, providers >>

\* One iteration of the loop: the provider is called and its error, if any,
\* pushed with its name; a panic of the provider unwinds the call.
InvokeProvider ==
    /\ n_pc = "sending"
    /\ n_idx <= Len(providers)
    /\ \E result \in ProviderResults(providers[n_idx]) :
         /\ calls' = Append(calls, [ index |-> n_idx, name |-> providers[n_idx],
                                     message |-> n_message,
                                     text |-> ProviderText(providers[n_idx],
                                                           n_message),
                                     result |-> result ])
         /\ errors' = IF result.tag = "Err"
                      THEN Append(errors, ErrorEntry(providers[n_idx], result))
                      ELSE errors
         /\ n_idx' = NextProviderIndex(n_idx, result, providers)
         /\ n_pc' = IF result.tag = "Panic" THEN "panicked" ELSE n_pc
    /\ UNCHANGED << config, sup_pc, service_monitors, task_handles, run_result,
                    service, task, obs, first_stopped, storeVars, lockVars, dashVars,
                    fluxa_config, providers,
                    n_message, send_result >>

\* After the loop: the call fails when every provider failed.
SendReturn ==
    /\ n_pc = "sending"
    /\ n_idx > Len(providers)
    /\ send_result' =
          IF SendFails(errors, providers)
          THEN [ kind |-> "Err", message |-> AllFailedMessage(errors) ]
          ELSE [ kind |-> "Ok", message |-> << >> ]
    /\ n_pc' = "done"
    /\ UNCHANGED << config, sup_pc, service_monitors, task_handles, run_result,
                    service, task, obs, first_stopped, storeVars, lockVars, dashVars,
                    fluxa_config, providers,
                    n_message, n_idx, errors, calls >>

\* ---------------------------------------------------------------- specification

RECURSIVE SeqsUpTo(_, _)
\* The sequences over S of length at most n.
SeqsUpTo(S, n) ==
    IF n = 0 THEN { << >> }
    ELSE LET shorter == SeqsUpTo(S, n - 1)
         IN  shorter \cup { Append(s, x) : s \in shorter, x \in S }

RECURSIVE TotalRetries(_)
TotalRetries(cs) ==
    IF cs = << >> THEN 0 ELSE Head(cs).max_retries + TotalRetries(Tail(cs))

\* The configurations of one monitor at most: no service, or one service
\* with any URL and any retry budget.
Configs == SeqsUpTo(ServiceConfig, 1)

\* The configurations of the engine: up to MaxServices services whose retry
\* budgets add up to MaxRetries at most.
EngineConfigs ==
    { cs \in SeqsUpTo(ServiceConfig, MaxServices) : TotalRetries(cs) <= MaxRetries }

\* The engine before MonitoringService::new.
InitMonitors(configs) ==
    /\ config \in configs
    /\ sup_pc = "new"
    /\ service_monitors = << >>
    /\ task_handles = << >>
    /\ run_result = NoResult
    /\ service = << >>
    /\ task = << >>
    /\ obs = << >>
    /\ first_stopped = 0

NoLookup == [ key |-> None, result |-> << >>, writes |-> 0 ]

NoSnapshot == [ kind |-> "none", map |-> << >>, writes |-> 0 ]

\* MonitoringState::new: an empty map.
InitStore ==
    /\ services = << >>
    /\ store_writes = [ u \in Urls |-> 0 ]
    /\ now = 0
    /\ write_log = << >>
    /\ last_lookup = NoLookup
    /\ last_snapshot = NoSnapshot

NoSendResult == [ kind |-> "none", message |-> << >> ]

\* A dispatcher holding one of `managers` as its provider list, not called.
InitNotif(managers) ==
    /\ fluxa_config = DefaultFluxaConfig
    /\ providers \in managers
    /\ n_pc = "idle"
    /\ n_message = None
    /\ n_idx = 0
    /\ errors = << >>
    /\ calls = << >>
    /\ send_result = NoSendResult

\* The monitors' sender is one of `senders`; the channel behind a sender has
\* its receiver alive or already gone; the dashboard shows nothing yet.
InitDashWith(senders) ==
    /\ dashboard_tx \in senders
    /\ channel \in IF dashboard_tx = None THEN { NewChannel }
                   ELSE { NewChannel, [ NewChannel EXCEPT !.closed = TRUE ] }
    /\ dashboard = NewDashboardState

\* The monitors were given no sender.
InitDash == InitDashWith({ None })

\* Nobody holds the lock of the store and no call is in progress.
InitLock ==
    /\ lock = Unlocked
    /\ callers = [ c \in Writers \cup Readers |-> IdleCaller ]

InitWith(configs) ==
    /\ InitMonitors(configs)
    /\ InitStore
    /\ InitDash
    /\ InitNotif({ << >> })
    /\ InitLock

Init == InitWith(Configs)

InitEngine == InitWith(EngineConfigs)

Next ==
    \/ New
    \/ StartAll
    \/ WaitForAnyTaskCompletion
    \/ \E m \in Monitors : Probe(m)
    \/ \E m \in Monitors : RetryWake(m)
    \/ \E m \in Monitors : Notify(m)
    \/ \E m \in Monitors : Wake(m)

\* One monitor at most, followed for MaxCycles cycles.
Spec == Init /\ [][Next]_vars

\* Several monitors running concurrently.
SpecEngine == InitEngine /\ [][Next]_vars

\* The steps of the task of monitor m.
TaskStep(m) ==
    /\ m \in Monitors
    /\ (Probe(m) \/ RetryWake(m) \/ Notify(m) \/ Wake(m))

\* Every HTTP attempt and every call of the dispatcher returns, every sleep
\* ends, and the runtime schedules the supervisor and every task that can
\* run.
Fairness ==
    /\ WF_vars(New)
    /\ WF_vars(StartAll)
    /\ \A m \in 1 .. MaxServices : WF_vars(TaskStep(m))

\* One monitor at most, under fair scheduling.
SpecLive == Init /\ [][Next]_vars /\ Fairness

\* The provider lists of a dispatcher: any providers in any order.
Managers == SeqsUpTo(ProviderNames, MaxProviders)

InitDispatcher ==
    /\ InitMonitors({ << >> })
    /\ InitStore
    /\ InitDash
    /\ InitNotif(Managers)
    /\ InitLock

NextDispatcher ==
    \/ SendNotification
    \/ InvokeProvider
    \/ SendReturn

\* One call of send_notification on a dispatcher.
SpecDispatcher == InitDispatcher /\ [][NextDispatcher]_vars

\* A dispatcher built by from_config from any notification settings.
InitConfigured ==
    /\ InitMonitors({ << >> })
    /\ InitStore
    /\ InitDash
    /\ InitLock
    /\ fluxa_config \in FluxaConfigs
    /\ providers = from_config(fluxa_config)
    /\ n_pc = "idle"
    /\ n_message = None
    /\ n_idx = 0
    /\ errors = << >>
    /\ calls = << >>
    /\ send_result = NoSendResult

\* Calls of send_notification on a dispatcher built from the settings.
SpecConfigured == InitConfigured /\ [][NextDispatcher]_vars

InitStoreCallers ==
    /\ InitMonitors({ << >> })
    /\ InitStore
    /\ InitDash
    /\ InitNotif({ << >> })
    /\ InitLock

NextStore ==
    \/ UpdateServiceState
    \/ GetServiceState
    \/ GetAllServiceStates
    \/ Tick

\* Writers and readers of the shared state store.
SpecStore == InitStoreCallers /\ [][NextStore]_vars

NextLock ==
    \/ \E w \in Writers : WriteLock(w)
    \/ \E w \in Writers : InsertBegin(w)
    \/ \E w \in Writers : InsertEnd(w)
    \/ \E r \in Readers : ReadLock(r)
    \/ \E r \in Readers : ReadClone(r)

\* Writers and readers of the store, interleaved at the steps of their calls,
\* within one second of the clock.
SpecLock == InitStoreCallers /\ [][NextLock]_vars

\* The store with one of the groups of callers, none of them in a call.
InitLockQueue ==
    /\ InitMonitors({ << >> })
    /\ InitStore
    /\ InitDash
    /\ InitNotif({ << >> })
    /\ lock = Unlocked
    /\ callers \in { [ c \in S |-> IdleCaller ] : S \in CallerSets }

NextLockQueue ==
    \/ NextLock
    \/ \E w \in Writers : WriteWait(w)
    \/ \E w \in Writers : WriteGrant(w)
    \/ \E r \in Readers : ReadWait(r)
    \/ \E r \in Readers : ReadGrant(r)

\* A caller that holds the lock, or is at the head of the queue of a lock it
\* can be granted, is a running task: it takes its next step.
LockFairness ==
    /\ \A w \in Writers :
          /\ WF_vars(InsertBegin(w))
          /\ WF_vars(InsertEnd(w))
          /\ WF_vars(WriteGrant(w))
    /\ \A r \in Readers :
          /\ WF_vars(ReadClone(r))
          /\ WF_vars(ReadGrant(r))

\* Writers and readers of the store with the callers that wait for the lock,
\* under fair scheduling.
SpecLockLive == InitLockQueue /\ [][NextLockQueue]_vars /\ LockFairness

\* One monitor at most, with or without a sender for the dashboard.
InitSink ==
    /\ InitMonitors(Configs)
    /\ InitStore
    /\ InitNotif({ << >> })
    /\ InitLock
    /\ InitDashWith({ None, "tx" })

NextSink ==
    \/ Next
    \/ Recv
    \/ Quit

\* The monitor of one service and the dashboard at the other end of its
\* sender.
SpecSink == InitSink /\ [][NextSink]_vars

\* The configurations of monitors that share the dashboard channel: up to
\* MaxServices services, each with max_retries = 0: one attempt per cycle
\* and no retry delay.
DashboardConfigs ==
    { cs \in SeqsUpTo(ServiceConfig, MaxServices) : TotalRetries(cs) = 0 }

\* Several monitors with the sender of one dashboard channel.
InitDashboard ==
    /\ InitMonitors(DashboardConfigs)
    /\ InitStore
    /\ InitNotif({ << >> })
    /\ InitLock
    /\ InitDashWith({ "tx" })

\* The steps of monitors that never retry, and of the dashboard.
NextDashboard ==
    \/ New
    \/ StartAll
    \/ WaitForAnyTaskCompletion
    \/ \E m \in Monitors : Probe(m)
    \/ \E m \in Monitors : Notify(m)
    \/ \E m \in Monitors : Wake(m)
    \/ Recv
    \/ Quit

\* The monitors of several services and the dashboard that receives their
\* updates.
SpecDashboard == InitDashboard /\ [][NextDashboard]_vars

\* The methods of DashboardState, in any order.
NextSelection ==
    \/ UpdateService
    \/ ToggleFilter
    \/ ToggleSort
    \/ SelectPrevious
    \/ SelectNext

\* A DashboardState from DashboardState::new under any sequence of calls of
\* its methods.
SpecSelection == InitStoreCallers /\ [][NextSelection]_vars

\* ---------------------------------------------------------------- properties

\* The retry loop of monitor m has ended for the current cycle.
CycleEnded(m) == task[m].pc \in { "notifying", "sleeping", "terminated" }

IsSuccessResponse(resp) == resp.tag = "Ok" /\ is_success(resp.status)

RECURSIVE Transitions(_, _)
\* Number of positions of vs whose verdict differs from the one before it,
\* prev being the verdict before the first.
Transitions(prev, vs) ==
    IF vs = << >> THEN 0
    ELSE (IF Head(vs) # prev THEN 1 ELSE 0) + Transitions(Head(vs), Tail(vs))

\* C1: for every monitor the number of dispatcher calls equals the number of
\* positions at which the verdict differs from the preceding verdict, the
\* verdict before the first cycle being Healthy (while the dispatcher call of
\* a transition is pending, it is one less).
C1_NotificationsEqualTransitions ==
    \A m \in Monitors :
        LET n == Transitions(Healthy, obs[m].verdicts)
        IN  IF task[m].pc = "notifying"
            THEN Len(obs[m].sent) = n - 1
            ELSE Len(obs[m].sent) = n

\* C1 witness: three cycles Unhealthy, Unhealthy, Healthy gave two calls.
C1_Witness ==
    \E m \in Monitors :
        /\ obs[m].verdicts = << Unhealthy, Unhealthy, Healthy >>
        /\ task[m].pc = "sleeping"
        /\ Len(obs[m].sent) = 2

\* C2: a cycle makes at least one and at most max_retries + 1 attempts, and
\* when every attempt failed it made exactly max_retries + 1 and the verdict
\* is Unhealthy.
C2_AttemptsBounded ==
    \A m \in Monitors :
        LET o == obs[m].outcomes
        IN  /\ Len(o) <= service[m].max_retries + 1
            /\ CycleEnded(m) =>
                 /\ Len(o) >= 1
                 /\ (\A i \in 1 .. Len(o) : ~ IsSuccessResponse(o[i])) =>
                      /\ Len(o) = service[m].max_retries + 1
                      /\ task[m].current_health = Unhealthy

\* C2 witness: a cycle of three failed attempts, of both kinds, with
\* max_retries = 2.
C2_Witness ==
    \E m \in Monitors :
        /\ CycleEnded(m)
        /\ service[m].max_retries = 2
        /\ Len(obs[m].outcomes) = 3
        /\ \E i, j \in 1 .. 3 :
             /\ obs[m].outcomes[i].tag = "Err"
             /\ obs[m].outcomes[j] = [tag |-> "Ok", status |-> 500]
        /\ \A i \in 1 .. 3 : ~ IsSuccessResponse(obs[m].outcomes[i])

\* C3: within a cycle no attempt follows an attempt that returned a success
\* status, and the verdict is Healthy exactly when some attempt of the cycle
\* returned a success status.
C3_StopsAtFirstSuccess ==
    \A m \in Monitors :
        LET o == obs[m].outcomes
        IN  /\ \A i \in 1 .. Len(o) : IsSuccessResponse(o[i]) => i = Len(o)
            /\ (\E i \in 1 .. Len(o) : IsSuccessResponse(o[i])) => CycleEnded(m)
            /\ CycleEnded(m) =>
                 ( task[m].current_health = Healthy
                     <=> \E i \in 1 .. Len(o) : IsSuccessResponse(o[i]) )

\* C3 witness: a success on the second of three allowed attempts ended the
\* cycle Healthy.
C3_Witness ==
    \E m \in Monitors :
        /\ CycleEnded(m)
        /\ service[m].max_retries = 2
        /\ Len(obs[m].outcomes) = 2
        /\ ~ IsSuccessResponse(obs[m].outcomes[1])
        /\ IsSuccessResponse(obs[m].outcomes[2])
        /\ task[m].current_health = Healthy

\* C4: after every failed attempt that is not the last allowed one the monitor
\* waits retry_delay, so a finished cycle of n attempts incurred n - 1 delays.
C4_DelayAfterEveryFailedAttempt ==
    \A m \in Monitors :
        CycleEnded(m) => obs[m].delays = Len(obs[m].outcomes) - 1

\* C5: no retry delay is incurred after the final attempt of a cycle: a task
\* waiting for a retry always has an attempt left, a finished cycle incurred
\* fewer delays than attempts, and with max_retries = 0 it is one attempt and
\* no delay.
C5_NoDelayAfterFinalAttempt ==
    \A m \in Monitors :
        /\ task[m].pc = "retry_sleep" => task[m].attempt < service[m].max_retries
        /\ CycleEnded(m) => obs[m].delays < Len(obs[m].outcomes)
        /\ (CycleEnded(m) /\ service[m].max_retries = 0) =>
             /\ Len(obs[m].outcomes) = 1
             /\ obs[m].delays = 0

\* C5 witness: with max_retries = 0 a transport error ended the cycle after
\* one attempt and no delay.
C5_Witness ==
    \E m \in Monitors :
        /\ CycleEnded(m)
        /\ service[m].max_retries = 0
        /\ obs[m].outcomes = << [tag |-> "Err", status |-> 0] >>
        /\ obs[m].delays = 0

\* C6: whenever a cycle ends with verdict Unhealthy, the latency recorded for
\* the cycle is absent.
C6_UnhealthyHasNoLatency ==
    \A m \in Monitors :
        (CycleEnded(m) /\ task[m].current_health = Unhealthy)
            => task[m].response_time = None

\* C7: every completed cycle of a monitor performed exactly one upsert of its
\* target's snapshot into the store.
C7_OneUpsertPerCycle ==
    \A m \in Monitors :
        task[m].pc = "sleeping" =>
            /\ store_writes[service[m].url] = Len(obs[m].verdicts)
            /\ service[m].url \in DOMAIN services

\* C8: the first monitor task to stop stops the engine: when run returns the
\* outcome of a task, it is the task that terminated first.
C8_FirstStoppedStopsEngine ==
    (sup_pc = "returned" /\ run_result.kind = "TaskJoin")
        => run_result.task = first_stopped

\* C9: with no monitor, run returns the configuration error of
\* start_all_monitoring without ever waiting for a task, and no task exists.
C9_EmptyConfigFailsFast ==
    Monitors = {} =>
        /\ sup_pc # "waiting"
        /\ task_handles = << >>
        /\ sup_pc = "returned" =>
             run_result =
                 ConfigurationError("No services configured for monitoring")

\* C9 witness: run has returned for an empty list of services.
C9_Witness ==
    /\ config = << >>
    /\ sup_pc = "returned"
    /\ run_result.kind = "Configuration"

\* C10: when some configured URL does not parse, no monitor is ever started.
C10_NoPartialStart ==
    (\E i \in DOMAIN config : ~ is_valid_url(config[i].url))
        => /\ sup_pc # "waiting"
           /\ \A m \in Monitors : task[m].pc = "unspawned"

\* start_all_monitoring has run and spawned tasks.
Started == sup_pc \in { "waiting", "returned" }

\* C11: starting the engine spawns exactly one task for each constructed
\* monitor: none before, one from the start on, whose handle the supervisor
\* holds until it has awaited it, and a terminated task is never replaced by
\* a new one (the count stays one and the task stays terminated).
C11_OneTaskPerMonitor ==
    \A m \in Monitors :
        /\ obs[m].spawns = IF Started THEN 1 ELSE 0
        /\ (task[m].pc = "unspawned") = ~Started
        /\ HandlesOf(task_handles, m) <= 1
        /\ sup_pc = "waiting" => HandlesOf(task_handles, m) = 1
        /\ task[m].exit # "none" => task[m].pc = "terminated"

\* Two monitors were started, one task has terminated and the engine returned
\* while the other task is still running.
C11_Witness ==
    /\ Cardinality(Monitors) = 2
    /\ sup_pc = "returned"
    /\ \E m \in Monitors : task[m].pc = "terminated" /\ obs[m].spawns = 1
    /\ \E m \in Monitors : task[m].pc = "sleeping" /\ obs[m].spawns = 1

\* Last element of a non-empty sequence.
Last(s) == s[Len(s)]

\* The verdict of the cycle before the latest one (Healthy before the first).
VerdictBefore(vs) == IF Len(vs) <= 1 THEN Healthy ELSE vs[Len(vs) - 1]

\* C15: when the dispatcher returned a failure for a transition notification,
\* the task is not terminated and has no error to return: the cycle was
\* completed into the end-of-cycle sleep, from which the next cycle starts.
C15_DispatchFailureKeepsMonitor ==
    \A m \in Monitors :
        (obs[m].results # << >> /\ Last(obs[m].results) = "Err") =>
            /\ task[m].exit = "none"
            /\ task[m].pc \in { "sleeping", "probing", "retry_sleep", "notifying" }
            /\ run_result.kind # "Service"

\* The first notification failed, and a later cycle has run to its sleep.
C15_Witness ==
    \E m \in Monitors :
        /\ obs[m].results = << "Err" >>
        /\ Len(obs[m].verdicts) >= 2
        /\ task[m].pc = "sleeping"

\* C16: health tracking does not depend on what the dispatcher returned:
\* whatever the results of the deliveries, the remembered status after a
\* cycle is the cycle's verdict (and, while the cycle runs, the verdict of the
\* cycle before), and a step in which the dispatcher returns changes nothing
\* of the store.
C16_TrackingIgnoresDelivery ==
    /\ [](\A m \in Monitors :
            LET vs == obs[m].verdicts
            IN  /\ task[m].pc = "sleeping" =>
                     service[m].health_status = Last(vs)
                /\ task[m].pc \in { "probing", "retry_sleep" } =>
                     service[m].health_status =
                         (IF vs = << >> THEN Healthy ELSE Last(vs))
                /\ task[m].pc = "notifying" =>
                     service[m].health_status = VerdictBefore(vs))
    /\ [][ (\E m \in Monitors :
                Len(obs'[m].results) > Len(obs[m].results))
            => UNCHANGED storeVars ]_vars

\* A delivery failed, the next cycle had the same verdict, and the failed
\* notification was not sent again.
C16_Witness ==
    \E m \in Monitors :
        /\ obs[m].verdicts = << Unhealthy, Unhealthy >>
        /\ obs[m].results = << "Err" >>
        /\ Len(obs[m].sent) = 1
        /\ service[m].health_status = Unhealthy
        /\ task[m].pc = "sleeping"

\* C17: no probe outcome is propagated as an error: no task ends with an
\* error and run never returns one, a task terminates only in the
\* dispatcher's call, and a cycle whose attempts all failed has ended with
\* the verdict Unhealthy.
C17_ProbeFailureNeverAnError ==
    /\ run_result.kind # "Service"
    /\ \A m \in Monitors :
        /\ task[m].exit # "err"
        /\ task[m].pc = "terminated" =>
             (obs[m].results # << >> /\ Last(obs[m].results) = "Panic")
        /\ ( /\ CycleEnded(m)
             /\ obs[m].outcomes # << >>
             /\ \A i \in DOMAIN obs[m].outcomes :
                    ~ IsSuccessResponse(obs[m].outcomes[i]) ) =>
             /\ task[m].current_health = Unhealthy
             /\ Last(obs[m].verdicts) = Unhealthy

\* Every attempt of two cycles failed, by a transport error at the last
\* attempt, and the monitor sleeps before its third cycle.
C17_Witness ==
    \E m \in Monitors :
        /\ obs[m].verdicts = << Unhealthy, Unhealthy >>
        /\ Len(obs[m].outcomes) = service[m].max_retries + 1
        /\ service[m].max_retries >= 1
        /\ Last(obs[m].outcomes).tag = "Err"
        /\ obs[m].outcomes[1].tag = "Ok"
        /\ task[m].pc = "sleeping"
        /\ task[m].exit = "none"

\* send_notification has returned from a call on a non-empty provider list.
SendDone == n_pc = "done" /\ providers # << >>

\* C12: on a non-empty provider list the call returns success exactly when
\* at least one provider returned success, and a failure only when every
\* registered provider was called and failed.
C12_SuccessIffOneProviderSucceeded ==
    SendDone =>
        /\ send_result.kind \in { "Ok", "Err" }
        /\ (send_result.kind = "Ok") =
               (\E i \in DOMAIN calls : calls[i].result.tag = "Ok")
        /\ send_result.kind = "Err" =>
               /\ Len(calls) = Len(providers)
               /\ \A i \in DOMAIN calls : calls[i].result.tag = "Err"

\* The first of two providers failed, the second succeeded, the call
\* returned success.
C12_Witness ==
    /\ SendDone
    /\ Len(providers) = 2
    /\ calls[1].result.tag = "Err"
    /\ calls[2].result.tag = "Ok"
    /\ send_result.kind = "Ok"

\* C13: one call invokes the providers one after the other in registration
\* order, each exactly once and with the call's message: the calls made so
\* far are the providers before the loop's position, and when the call has
\* returned they are all the providers, whatever each of them returned.
C13_EveryProviderOnceInOrder ==
    /\ (n_pc \in { "sending", "done", "panicked" } /\ providers # << >>) =>
        /\ Len(calls) = n_idx - 1
        /\ Len(calls) <= Len(providers)
        /\ \A i \in DOMAIN calls :
              /\ calls[i].index = i
              /\ calls[i].name = providers[i]
              /\ calls[i].message = n_message
    /\ SendDone => Len(calls) = Len(providers)

\* The first provider succeeded and the second was called all the same, and
\* failed.
C13_Witness ==
    /\ SendDone
    /\ Len(providers) = 2
    /\ Len(calls) = 2
    /\ calls[1].result.tag = "Ok"
    /\ calls[2].result.tag = "Err"

RECURSIVE FailureTexts(_)
\* For each call, in order, the provider's name followed by the text of the
\* error it returned.
FailureTexts(cs) ==
    IF cs = << >> THEN << >>
    ELSE << << Head(cs).name, ": " >> \o Display(Head(cs).result) >>
             \o FailureTexts(Tail(cs))

\* C14: the message of a failure is "All providers failed: " followed, for
\* every registered provider in registration order, by the provider's name
\* and the text of its error, separated by ", ".
C14_FailureNamesEveryProvider ==
    (SendDone /\ send_result.kind = "Err") =>
        /\ Len(calls) = Len(providers)
        /\ \A i \in DOMAIN providers : calls[i].name = providers[i]
        /\ send_result.message =
               << "All providers failed: " >> \o Join(FailureTexts(calls), ", ")

\* Two different providers failed with errors of different variants.
C14_Witness ==
    /\ SendDone
    /\ send_result.kind = "Err"
    /\ providers = << "Pushover", "Telegram" >>
    /\ calls[1].result.variant = "HttpRequest"
    /\ calls[2].result.variant = "SendFailed"

\* The upserts of log for key k, in order.
WritesFor(log, k) == SelectSeq(log, LAMBDA e : e.url = k)

\* The upserts that preceded the last lookup.
LogAtLookup == SubSeq(write_log, 1, last_lookup.writes)

\* C18: a point lookup of key K made after a write for K returns a snapshot
\* whose status, latency, diagnostic and retry count are those of the last
\* write for K that preceded the lookup.
C18_ReadYourWrite ==
    (last_lookup.key # None /\ WritesFor(LogAtLookup, last_lookup.key) # << >>) =>
        LET w == Last(WritesFor(LogAtLookup, last_lookup.key)).input
        IN  /\ Len(last_lookup.result) = 1
            /\ last_lookup.result[1].status = w.status
            /\ last_lookup.result[1].last_response_time_ms = w.response_time_ms
            /\ last_lookup.result[1].last_error = w.error
            /\ last_lookup.result[1].current_retry_count = w.retry_count

\* A key was written with a diagnostic and two retries and looked up right
\* after, before any other write.
C18_Witness ==
    /\ last_lookup.key # None
    /\ last_lookup.writes = Len(write_log)
    /\ Len(write_log) >= 1
    /\ Last(write_log).url = last_lookup.key
    /\ Last(write_log).input.retry_count = 2
    /\ last_lookup.result # Nothing
    /\ last_lookup.result[1].current_retry_count = 2

\* C19: the snapshot the store holds for a key is exactly the one built from
\* the last write for the key and the time of that write, with nothing of
\* the snapshots written before, and the store holds a snapshot for the
\* written keys and no other.
C19_UpsertReplaces ==
    /\ DOMAIN services = { k \in Urls : store_writes[k] > 0 }
    /\ \A k \in Urls :
          /\ store_writes[k] = Len(WritesFor(write_log, k))
          /\ k \in DOMAIN services =>
               LET e == Last(WritesFor(write_log, k))
               IN  services[k] =
                       [ status |-> e.input.status,
                         last_response_time_ms |-> e.input.response_time_ms,
                         last_check_timestamp |-> e.at,
                         next_check_timestamp |->
                             (e.at + e.input.next_check_in_seconds)
                                 % U64Modulus,
                         last_error |-> e.input.error,
                         current_retry_count |-> e.input.retry_count ]

\* A key was written with a diagnostic and no latency, then with a latency
\* and no diagnostic, another second: the diagnostic is gone.
C19_Witness ==
    \E k \in Urls :
        /\ store_writes[k] = 2
        /\ WritesFor(write_log, k)[1].input.error # None
        /\ WritesFor(write_log, k)[2].input.error = None
        /\ WritesFor(write_log, k)[2].at > WritesFor(write_log, k)[1].at
        /\ services[k].last_error = None
        /\ services[k].last_response_time_ms # Nothing

\* C20: a point lookup of a key that no write preceding it was for returns
\* absence, whatever was written for other keys.
C20_NeverWrittenIsAbsent ==
    (last_lookup.key # None /\ WritesFor(LogAtLookup, last_lookup.key) = << >>) =>
        last_lookup.result = Nothing

\* Two other keys were written, then a key never written was looked up.
C20_Witness ==
    /\ last_lookup.key # None
    /\ last_lookup.writes = 2
    /\ write_log[1].url # write_log[2].url
    /\ WritesFor(write_log, last_lookup.key) = << >>
    /\ last_lookup.result = Nothing

\* The map the reader of the last full-snapshot read holds, as the reader
\* sees it now.
HeldMap ==
    IF last_snapshot.kind = "borrowed" THEN services ELSE last_snapshot.map

\* C21: the map a full-snapshot read returned is a copy: it holds snapshots
\* only of keys written before the read, and no step that is not a new read
\* changes what the reader sees in it, whatever is written to the store.
C21_FullReadIsACopy ==
    /\ [](last_snapshot.kind # "none" =>
            \A k \in DOMAIN HeldMap :
                WritesFor(SubSeq(write_log, 1, last_snapshot.writes), k) # << >>)
    /\ [][ (last_snapshot.kind # "none" /\ UNCHANGED last_snapshot)
             => HeldMap' = HeldMap ]_vars

\* A full-snapshot read returned one entry, and a later write has changed the
\* store: the reader's map is not the store's any more.
C21_Witness ==
    /\ last_snapshot.kind = "owned"
    /\ last_snapshot.writes = 1
    /\ Len(write_log) = 2
    /\ DOMAIN last_snapshot.map # {}
    /\ last_snapshot.map # services

\* The snapshots written as a whole for key k.
WrittenSnapshots(k) ==
    { MonitoringStats(e.input.status, e.input.response_time_ms, e.input.error,
                      e.input.retry_count, e.input.next_check_in_seconds, e.at) :
        e \in { write_log[i] : i \in { j \in DOMAIN write_log :
                                         write_log[j].url = k } } }

\* C22: under any interleaving of the steps of writers and readers, every
\* snapshot a reader obtained for a key, by a point lookup or in a
\* full-snapshot read, is one of the snapshots written for that key as a
\* whole.
C22_NoTornRead ==
    /\ last_lookup.result # Nothing =>
           last_lookup.result[1] \in WrittenSnapshots(last_lookup.key)
    /\ \A k \in DOMAIN last_snapshot.map :
           last_snapshot.map[k] \in WrittenSnapshots(k)

\* A reader has obtained the first snapshot of a key; the writer of the key
\* now holds the write lock with the record half overwritten in the map, and
\* no reader is inside a read.
C22_Witness ==
    \E w \in Writers :
        /\ callers[w].pc = "inserting"
        /\ w \in DOMAIN services
        /\ services[w] \notin WrittenSnapshots(w)
        /\ last_lookup.key = w
        /\ last_lookup.result # Nothing
        /\ last_lookup.result[1] \in WrittenSnapshots(w)
        /\ \E r \in Readers : callers[r].pc = "idle"

\* C23: every snapshot the store holds has next_check_timestamp equal to its
\* last_check_timestamp plus the interval given with the write that made it.
C23_NextCheckIsLastPlusInterval ==
    \A k \in DOMAIN services :
        services[k].next_check_timestamp =
            services[k].last_check_timestamp
                + Last(WritesFor(write_log, k)).input.next_check_in_seconds

\* C24: when the retry loop of a cycle has ended, the diagnostic of the cycle
\* is absent exactly when the verdict is Healthy.
C24_DiagnosticIffUnhealthy ==
    \A m \in Monitors :
        CycleEnded(m) =>
            ((task[m].error_message = None) = (task[m].current_health = Healthy))

\* A cycle ended Healthy after a failed attempt that had set a diagnostic.
C24_Witness ==
    \E m \in Monitors :
        /\ CycleEnded(m)
        /\ Len(obs[m].outcomes) >= 2
        /\ ~ IsSuccessResponse(obs[m].outcomes[1])
        /\ task[m].current_health = Healthy
        /\ task[m].error_message = None

\* The step starts a cycle of monitor m: its task is at the first attempt.
CycleStarts(m) ==
    /\ task'[m] # task[m]
    /\ task'[m].pc = "probing"
    /\ task'[m].attempt = 0

\* C25: the cycles of a monitor are sequential. A cycle starts either when
\* the task is spawned or from the end-of-cycle sleep of the cycle before,
\* whose verdict is then known and remembered and whose notification, if it
\* had one, has returned; the task is at one place at a time, so no two
\* probes of a monitor are in flight together.
C25_CyclesAreSequential ==
    [][ \A m \in Monitors :
          CycleStarts(m) =>
            \/ task[m].pc = "unspawned"
            \/ /\ task[m].pc = "sleeping"
               /\ Len(obs[m].verdicts) >= 1
               /\ Len(obs[m].results) = Transitions(Healthy, obs[m].verdicts)
               /\ service[m].health_status = Last(obs[m].verdicts) ]_vars

\* The second cycle of a monitor has started after a first cycle that sent a
\* notification.
C25_Witness ==
    \E m \in Monitors :
        /\ Len(obs[m].verdicts) = 1
        /\ Len(obs[m].results) = 1
        /\ task[m].pc = "probing"
        /\ task[m].attempt = 0
        /\ obs[m].outcomes = << >>

\* Monitor m exists and is inside a cycle: probing, in a retry delay or in
\* the dispatcher's call.
InCycle(m) ==
    m \in Monitors /\ task[m].pc \in { "probing", "retry_sleep", "notifying" }

\* Monitor m exists and is out of its cycle.
CycleOver(m) ==
    m \in Monitors /\ task[m].pc \in { "sleeping", "terminated" }

\* Monitor m has been followed to the end: its task has terminated, or it
\* sleeps after the last cycle followed.
FollowedToEnd(m) ==
    m \in Monitors =>
        \/ task[m].pc = "terminated"
        \/ task[m].pc = "sleeping" /\ Len(obs[m].verdicts) = CycleCap

\* C26: under fair scheduling every cycle of every monitor terminates, in
\* the end-of-cycle sleep or with the task's termination; every monitor
\* starts cycle after cycle, as many as are followed, unless its task
\* terminates; and a task terminates only with an error or a panic, never by
\* the loop coming to an end.
C26_MonitorsKeepCycling ==
    /\ \A m \in 1 .. MaxServices :
          InCycle(m) ~> CycleOver(m)
    /\ <>[](sup_pc \notin { "new", "built" }
              /\ \A m \in 1 .. MaxServices : FollowedToEnd(m))
    /\ [](\A m \in Monitors : task[m].pc = "terminated" => task[m].exit # "none")

\* A monitor has run every cycle followed and sleeps, its task alive.
C26_Witness ==
    \E m \in Monitors :
        /\ task[m].pc = "sleeping"
        /\ task[m].exit = "none"
        /\ Len(obs[m].verdicts) = MaxCycles
        /\ Len(obs[m].results) >= 1

\* Monitor m is followed no further: its task has terminated or has run the
\* cycles followed.
Finished(m) ==
    \/ task[m].pc = "terminated"
    \/ task[m].pc = "sleeping" /\ Len(obs[m].verdicts) >= CycleCap

\* C27: once the engine has started its tasks, every monitor that is not
\* finished can take its next step, wherever the other monitors are: waiting
\* for an attempt, in a retry delay, in the dispatcher's call, asleep or
\* terminated.
C27_IndependentProgress ==
    Started => \A m \in Monitors : Finished(m) \/ ENABLED TaskStep(m)

\* One monitor is suspended in a retry delay of its first cycle and the
\* other has completed a cycle with a notification.
C27_Witness ==
    \E m1, m2 \in Monitors :
        /\ m1 # m2
        /\ task[m1].pc = "retry_sleep"
        /\ obs[m1].verdicts = << >>
        /\ task[m2].pc = "sleeping"
        /\ Len(obs[m2].verdicts) = 1
        /\ Len(obs[m2].results) = 1

C29_ReadersNeverWrite ==
    /\ [](lock.writer \in Writers \cup { None } /\ lock.readers \subseteq Readers)
    /\ [][ (\E r \in Readers : callers'[r] # callers[r]) =>
             UNCHANGED << services, store_writes, write_log >> ]_vars

\* Both readers hold the read lock at once on a store with a snapshot, one
\* for a point lookup and one for a full-snapshot read.
C29_Witness ==
    /\ lock.readers = Readers
    /\ lock.writer = None
    /\ DOMAIN services # {}
    /\ \E r1, r2 \in Readers :
          /\ callers[r1].op = "get_service"
          /\ callers[r2].op = "get_all_services"

\* The providers registered with the dispatcher, as a set.
Registered == { providers[i] : i \in DOMAIN providers }

\* C30: a dispatcher built from the settings holds Console first, Pushover
\* exactly when both Pushover keys are non-empty and Telegram exactly when
\* the settings have a telegram section, each once and in that order, and
\* its provider list never changes afterwards.
C30_ProvidersFollowSettings ==
    /\ [](/\ Len(providers) >= 1
          /\ providers[1] = "Console"
          /\ \A i, j \in DOMAIN providers :
                (i < j) => /\ providers[i] # providers[j]
                           /\ providers[i] # "Telegram"
                           /\ providers[j] # "Console"
          /\ ("Pushover" \in Registered) <=>
                (fluxa_config.pushover_api_key # ""
                   /\ fluxa_config.pushover_user_key # "")
          /\ ("Telegram" \in Registered) <=> (fluxa_config.telegram # Nothing))
    /\ [][providers' = providers /\ fluxa_config' = fluxa_config]_vars

\* Only one Pushover key is given, with a telegram section: a call has gone
\* through the providers Console and Telegram and returned.
C30_Witness ==
    /\ fluxa_config.pushover_api_key # ""
    /\ fluxa_config.pushover_user_key = ""
    /\ fluxa_config.telegram # Nothing
    /\ providers = << "Console", "Telegram" >>
    /\ n_pc = "done"
    /\ Len(calls) = 2

\* C31: a message is given to the dispatcher only for a verdict that differs
\* from the remembered status; it is the monitor's own URL followed by
\* " is now healthy!" when that verdict is Healthy and by " is unhealthy!"
\* when it is Unhealthy. A cycle whose verdict equals the remembered status
\* goes to the sleep with no message.
C31_MessageNamesTheTransition ==
    /\ [][ \A m \in Monitors :
             (obs'[m].sent # obs[m].sent) =>
                 /\ obs[m].verdicts # << >>
                 /\ Last(obs[m].verdicts) # service[m].health_status
                 /\ Len(obs'[m].sent) = Len(obs[m].sent) + 1
                 /\ LET text == Last(obs'[m].sent)
                    IN  /\ text[1] = service[m].url
                        /\ (text[2] = " is now healthy!") <=>
                              (Last(obs[m].verdicts) = Healthy)
                        /\ (text[2] = " is unhealthy!") <=>
                              (Last(obs[m].verdicts) = Unhealthy) ]_vars
    /\ [][ \A m \in Monitors :
             (/\ Len(obs'[m].verdicts) = Len(obs[m].verdicts) + 1
              /\ Last(obs'[m].verdicts) = service[m].health_status) =>
                 /\ task'[m].pc = "sleeping"
                 /\ obs'[m].sent = obs[m].sent ]_vars

\* A monitor has sent the unhealthy message and then the healthy one, and a
\* third cycle without a transition has ended with nothing more sent.
C31_Witness ==
    \E m \in Monitors :
        /\ obs[m].sent = << << service[m].url, " is unhealthy!" >>,
                            << service[m].url, " is now healthy!" >> >>
        /\ obs[m].verdicts = << Unhealthy, Healthy, Healthy >>
        /\ task[m].pc = "sleeping"

\* C32: once a cycle has ended Unhealthy its diagnostic is the one of the
\* last attempt of that cycle: "HTTP 500: Internal Server Error" when that
\* attempt received the response 500 and "Request failed: <cause>" when it
\* failed at transport level, whatever the attempts before it were.
C32_DiagnosticOfLastAttempt ==
    \A m \in Monitors :
        (/\ task[m].pc \in { "notifying", "sleeping", "terminated" }
         /\ obs[m].outcomes # << >>
         /\ task[m].current_health = Unhealthy) =>
            LET last == Last(obs[m].outcomes)
            IN  /\ (last.tag = "Ok") =>
                      /\ last.status = 500
                      /\ task[m].error_message = "HTTP 500: Internal Server Error"
                /\ (last.tag = "Err") =>
                      task[m].error_message = "Request failed: error sending request"

\* A cycle ended Unhealthy whose first attempt failed at transport level and
\* whose last attempt received a 500.
C32_Witness ==
    \E m \in Monitors :
        /\ task[m].pc \in { "notifying", "sleeping" }
        /\ task[m].current_health = Unhealthy
        /\ Len(obs[m].outcomes) = 2
        /\ obs[m].outcomes[1].tag = "Err"
        /\ obs[m].outcomes[2] = [ tag |-> "Ok", status |-> 500 ]
        /\ task[m].error_message = "HTTP 500: Internal Server Error"

\* The caller c holds the lock of the store.
Holds(c) == lock.writer = c \/ c \in lock.readers

\* The caller c waits in the queue of the lock.
Waits(c) == c \in DOMAIN callers /\ callers[c].pc = "waiting"

\* C33: a caller holds the write lock exactly while its call is between the
\* grant and the end of its one insert, and a read lock exactly while its
\* call is between the grant and its one clone; every lock that is held is
\* released, and every caller that waits for the lock is granted it.
C33_LocksAreShortLived ==
    /\ [](\A w \in Writers \cap DOMAIN callers :
            (lock.writer = w) <=> (callers[w].pc \in { "built", "inserting" }))
    /\ [](\A r \in Readers \cap DOMAIN callers :
            (r \in lock.readers) <=> (callers[r].pc = "reading"))
    /\ [][ \A w \in Writers :
             (lock.writer = w /\ lock'.writer # w) =>
                 /\ callers[w].pc = "inserting"
                 /\ Len(write_log') = Len(write_log) + 1 ]_vars
    /\ \A c \in Writers \cup Readers : Holds(c) ~> ~ Holds(c)
    /\ \A c \in Writers \cup Readers : Waits(c) ~> Holds(c)

\* After a first write, a writer waits in the queue while a reader holds the
\* lock.
C33_Witness ==
    /\ \E r \in Readers : lock.readers = { r }
    /\ \E w \in Writers : lock.queue = << w >> /\ Waits(w)
    /\ Len(write_log) >= 1

\* C34: a write for a key leaves the snapshot of every other key as it was,
\* and no step removes a key from the store.
C34_WriteIsLocalToItsKey ==
    /\ [][ DOMAIN services \subseteq DOMAIN services' ]_vars
    /\ [][ (Len(write_log') = Len(write_log) + 1) =>
             \A u \in DOMAIN services :
                 (u # Last(write_log').url) => services'[u] = services[u] ]_vars

\* After writes for two different URLs with different values the store
\* holds both entries, each with the values written for it.
C34_Witness ==
    /\ Len(write_log) = 2
    /\ write_log[1].url # write_log[2].url
    /\ write_log[1].input # write_log[2].input
    /\ DOMAIN services = { write_log[1].url, write_log[2].url }
    /\ \A i \in 1 .. 2 :
          /\ services[write_log[i].url].status = write_log[i].input.status
          /\ services[write_log[i].url].current_retry_count =
                write_log[i].input.retry_count
          /\ services[write_log[i].url].last_error = write_log[i].input.error

\* C35: without a sender no update is given to the channel; with a sender
\* one update is given per cycle, at the end of its retry loop and so before
\* the notification of that cycle, whether the channel accepts it or not;
\* and with or without a sender the cycle's verdict follows from its last
\* attempt, a transition goes to the dispatcher, the task does not end with
\* an error, and the next cycle can start from the sleep.
C35_SinkNeverAffectsMonitoring ==
    /\ [](dashboard_tx = None =>
             /\ channel = NewChannel
             /\ \A m \in Monitors : obs[m].emitted = 0)
    /\ [](dashboard_tx # None =>
             \A m \in Monitors : obs[m].emitted = Len(obs[m].verdicts))
    /\ [](\A m \in Monitors :
             /\ task[m].exit # "err"
             /\ (task[m].pc = "sleeping" /\ Len(obs[m].verdicts) < CycleCap) =>
                    ENABLED Wake(m))
    /\ [][ \A m \in Monitors :
             (Len(obs'[m].verdicts) = Len(obs[m].verdicts) + 1) =>
                 LET verdict == Last(obs'[m].verdicts)
                     last == Last(obs'[m].outcomes)
                 IN  /\ (verdict = Healthy) <=>
                           (last.tag = "Ok" /\ is_success(last.status))
                     /\ task'[m].pc = IF verdict # service[m].health_status
                                      THEN "notifying" ELSE "sleeping" ]_vars

\* The receiver is gone and nothing was accepted, and the monitor has given
\* two updates to its sender, notified a transition and ended a second
\* cycle.
C35_Witness ==
    /\ dashboard_tx # None
    /\ channel.closed
    /\ channel.accepted = << >>
    /\ \E m \in Monitors :
          /\ obs[m].emitted = 2
          /\ Len(obs[m].verdicts) = 2
          /\ Len(obs[m].sent) >= 1
          /\ task[m].pc = "sleeping"

\* C36: a dispatcher built from the settings has Console as its first
\* provider, its call of Console never returns an error, and so
\* send_notification never returns a failure, whatever Pushover and Telegram
\* return.
C36_ConsoleMakesSendSucceed ==
    /\ providers # << >>
    /\ providers[1] = "Console"
    /\ \A i \in DOMAIN calls :
          (calls[i].name = "Console") => calls[i].result.tag # "Err"
    /\ send_result.kind # "Err"
    /\ (n_pc = "done") => send_result.kind = "Ok"

\* Pushover and Telegram are registered and both failed, and the call
\* returned Ok.
C36_Witness ==
    /\ providers = << "Console", "Pushover", "Telegram" >>
    /\ n_pc = "done"
    /\ Len(calls) = 3
    /\ calls[1].result.tag = "Ok"
    /\ calls[2].result.tag = "Err"
    /\ calls[3].result.tag = "Err"
    /\ send_result.kind = "Ok"

\* C37: send_notification on a dispatcher with no provider returns Ok
\* without a call of any provider and without an error collected.
C37_NoProviderIsSuccess ==
    (providers = << >>) =>
        /\ n_pc \in { "idle", "done" }
        /\ (n_pc = "done") =>
              /\ send_result = [ kind |-> "Ok", message |-> << >> ]
              /\ n_message \in Messages
        /\ (n_pc = "idle") => send_result = NoSendResult
        /\ calls = << >>
        /\ errors = << >>

\* The call on a dispatcher with no provider has returned.
C37_Witness ==
    /\ providers = << >>
    /\ n_pc = "done"
    /\ n_message # None
    /\ calls = << >>
    /\ send_result.kind = "Ok"

\* C38: the Telegram provider formats a message as a Service Alert exactly
\* when it tells a transition to Unhealthy, and as a Service Recovery
\* exactly when it tells a transition to Healthy, whatever the URL.
C38_TelegramTitleFollowsVerdict ==
    \A i \in DOMAIN calls :
        (calls[i].name = "Telegram") =>
            /\ (calls[i].text.title = "Service Alert") <=>
                  (calls[i].message[2] = " is unhealthy!")
            /\ (calls[i].text.title = "Service Recovery") <=>
                  (calls[i].message[2] = " is now healthy!")

\* The updates the dashboard has received so far, in the order the channel
\* accepted them.
Applied == SubSeq(channel.accepted, 1, channel.received)

\* The updates of a sequence of events that are for url.
UpdatesFor(events, url) == SelectSeq(events, LAMBDA e : e.url = url)

\* C39: while the dashboard runs, the channel holds the accepted updates it
\* has not handed out yet, in the order they were sent, and the dashboard's
\* entry for a URL is the last update received for it; so with the channel
\* drained every entry is the most recent update sent for its URL.
C39_UpdatesAppliedInOrder ==
    (~ channel.closed) =>
        /\ channel.received <= Len(channel.accepted)
        /\ channel.queue = SubSeq(channel.accepted, channel.received + 1,
                                  Len(channel.accepted))
        /\ \A url \in Urls :
              LET ups == UpdatesFor(Applied, url)
              IN  IF ups = << >>
                  THEN url \notin DOMAIN dashboard.services
                  ELSE /\ url \in DOMAIN dashboard.services
                       /\ dashboard.services[url] = Last(ups).service
        /\ (channel.queue = << >>) =>
              \A url \in Urls :
                  LET sent == UpdatesFor(channel.accepted, url)
                  IN  (sent # << >>) =>
                          dashboard.services[url] = Last(sent).service

\* Two monitors of the same URL have each sent an update, the two differ,
\* and the dashboard has drained the channel.
C39_Witness ==
    /\ ~ channel.closed
    /\ Len(channel.accepted) = 2
    /\ channel.accepted[1].url = channel.accepted[2].url
    /\ channel.accepted[1] # channel.accepted[2]
    /\ channel.received = 2
    /\ channel.queue = << >>
    /\ \E m1, m2 \in Monitors :
          m1 # m2 /\ obs[m1].emitted = 1 /\ obs[m2].emitted = 1

\* C40: whenever some service passes the filter, selected_index is the index
\* of one of the filtered services.
C40_SelectionWithinFiltered ==
    LET filtered_count == Len(get_filtered_services(dashboard))
    IN  (filtered_count > 0) => dashboard.selected_index < filtered_count

====
